---- MODULE Spec2Model ----
(***************************************************************************)
(* A model of the moto-news agents: the user agent's pipeline              *)
(* (agents/user_agent.py: run_once, run_periodic), its topic selection,    *)
(* duplicate guard and reply parser, and the discussion board it writes    *)
(* to (agents/tools/github_discussions.py).                                *)
(*                                                                         *)
(* Texts are sequences of one-character strings, so that lower-casing,     *)
(* punctuation stripping, splitting and trigram building are computed as   *)
(* the code computes them.  A similarity is the pair <<|A \cap B|,         *)
(* |A \cup B|>>; it is compared with a threshold given in hundredths.      *)
(***************************************************************************)
EXTENDS Integers, Sequences, FiniteSets, TLC

VARIABLES
    input,        \* the arguments drawn for a call of a pure function
    call,         \* the last call of a pure function: its name, arguments, result
    launch,       \* the command line and the environment of the process
    board,        \* the discussions of the repository, newest first
    sched,        \* where main and run_periodic stand
    run_count,    \* run_periodic's counter of runs
    exit_code,    \* the exit status of the process, -1 while it runs
    run,          \* the call of run_once: where it stands (pc), its locals
                  \* attempt, discussions, skip_ids, topic and suggestion,
                  \* and the result it has returned
    sleep,        \* the seconds of the time.sleep call in progress, 0 if none
    at_read,      \* history: the category's discussions on the board when the
                  \* attempt fetched the existing discussions
    created,      \* history: the discussions this call of run_once has created
    skipped_run,  \* history: the topic ids this call of run_once has added to
                  \* skip_ids, all attempts together
    runs_done     \* history: the runs of run_periodic that have ended, each
                  \* with whether it has failed (run_once has returned the
                  \* error, or an exception has reached run_periodic)

pureVars == <<input, call>>

schedVars == <<sched, run_count, exit_code>>

histVars == <<at_read, created, skipped_run, runs_done>>

pipelineVars == <<launch, board, schedVars, run, sleep, histVars>>

vars == <<pureVars, pipelineVars>>

(***************************************************************************)
(* Bounds of the model.                                                    *)
(***************************************************************************)
\* the longest corpus of existing discussions handed to a pure function
MaxPosts == 2

\* the runs run_periodic makes before the model stops it
MaxRuns == 2

\* the discussions the board holds before the model stops adding to it
MaxBoard == 3

\* the cycles run_pipeline makes before the model stops it
MaxCycles == 2

(***************************************************************************)
(* Characters and strings (Python str methods used by the code).           *)
(***************************************************************************)
Range(s) == {s[i] : i \in DOMAIN s}

UpperCase ==
    <<"A","B","C","D","E","F","G","H","I","J","K","L","M",
      "N","O","P","Q","R","S","T","U","V","W","X","Y","Z">>

LowerCase ==
    <<"a","b","c","d","e","f","g","h","i","j","k","l","m",
      "n","o","p","q","r","s","t","u","v","w","x","y","z">>

Digits == {"0","1","2","3","4","5","6","7","8","9"}

SpaceChars == {" ", "\n", "\t", "\r"}

WordChars == Range(UpperCase) \cup Range(LowerCase) \cup Digits \cup {"_"}

LowerOf == [c \in Range(UpperCase) |->
              LowerCase[CHOOSE i \in DOMAIN UpperCase : UpperCase[i] = c]]

\* str.isspace for the characters the model uses
IsSpace(c) == c \in SpaceChars

\* the regular expression class \w: letters, digits and the underscore
IsWordChar(c) == c \in WordChars

LowerChar(c) == IF c \in DOMAIN LowerOf THEN LowerOf[c] ELSE c

\* str.lower()
Lower(s) == [i \in DOMAIN s |-> LowerChar(s[i])]

\* s[:n]
Take(s, n) == IF Len(s) <= n THEN s ELSE SubSeq(s, 1, n)

\* str.split() without arguments: the maximal runs of non-space characters;
\* from[i] is the list of those that start at character i or after it
Split(s) ==
    LET from[i \in 1..(Len(s) + 1)] ==
            LET starts == {j \in i..Len(s) : ~IsSpace(s[j])}
                b == CHOOSE j \in starts : \A k \in starts : j <= k
                e == CHOOSE q \in b..(Len(s) + 1) :
                         /\ q > Len(s) \/ IsSpace(s[q])
                         /\ \A k \in b..(q - 1) : ~IsSpace(s[k])
            IN  IF starts = {} THEN <<>>
                ELSE <<SubSeq(s, b, e - 1)>> \o from[e]
    IN  from[1]

\* f"{a} {b}"
Join2(a, b) == a \o <<" ">> \o b

RECURSIVE JoinWords(_)
\* " ".join(words)
JoinWords(ws) ==
    IF ws = <<>> THEN <<>>
    ELSE IF Len(ws) = 1 THEN ws[1]
    ELSE ws[1] \o <<" ">> \o JoinWords(Tail(ws))

(***************************************************************************)
(* Trigram similarity.                                                     *)
(***************************************************************************)
\* re.sub(r'[^\w\s]', '', text.lower())
Cleaned(text) == SelectSeq(Lower(text), LAMBDA c : IsWordChar(c) \/ IsSpace(c))

\* trigrams of the words of four characters and more only
WordTrigrams_FourUp(word) ==
    IF Len(word) < 4 THEN {}
    ELSE {SubSeq(word, i, i + 2) : i \in 1..(Len(word) - 2)}

WordTrigrams(word) ==
    IF Len(word) < 3 THEN {}
    ELSE {SubSeq(word, i, i + 2) : i \in 1..(Len(word) - 2)}

\* cleaned and words are the locals of the code
_text_to_trigrams(text) ==
    UNION {UNION {UNION {WordTrigrams(word) : word \in Range(words)}
                  : words \in {Split(cleaned)}}
           : cleaned \in {Cleaned(text)}}

\* the share of the first set that the second one holds
_similarity_OverFirst(set_a, set_b) ==
    IF set_a = {} \/ set_b = {}
    THEN <<0, 1>>
    ELSE <<Cardinality(set_a \cap set_b), Cardinality(set_a)>>

\* the Jaccard index as <<numerator, denominator>>; 0.0 is <<0, 1>>
_similarity(set_a, set_b) ==
    IF set_a = {} \/ set_b = {}
    THEN <<0, 1>>
    ELSE <<Cardinality(set_a \cap set_b), Cardinality(set_a \cup set_b)>>

\* sim >= threshold, the threshold given in hundredths
SimGE(sim, hundredths) == 100 * sim[1] >= hundredths * sim[2]

\* f"{sim:.2f}" as a number of hundredths: the nearest one, a tie going to
\* the even one (a tie is a dyadic fraction and exactly representable as
\* long as the union has fewer than 40 trigrams)
Fmt2f(sim) ==
    LET n == 100 * sim[1]
        q == n \div sim[2]
        r == n % sim[2]
    IN  IF 2 * r > sim[2] THEN q + 1
        ELSE IF 2 * r < sim[2] THEN q
        ELSE IF q % 2 = 0 THEN q ELSE q + 1

(***************************************************************************)
(* Labels of a discussion.                                                 *)
(***************************************************************************)
wontfix == <<"w","o","n","t","f","i","x">>

\* discussion.labels is the sequence of the label names (labels.nodes[].name);
\* a discussion without labels has the empty sequence
_has_label(discussion, label_name) ==
    IF discussion.labels = <<>>
    THEN FALSE
    ELSE \E i \in DOMAIN discussion.labels :
            Lower(discussion.labels[i]) = Lower(label_name)

(***************************************************************************)
(* The duplicate guard.                                                    *)
(***************************************************************************)
DupWontfixThreshold == 20
DupNormalThreshold == 35

NoReason == [matched |-> FALSE]

DiscussionTrigrams(d) == _text_to_trigrams(Join2(d.title, d.body))

DupThreshold(d) ==
    IF _has_label(d, wontfix) THEN DupWontfixThreshold ELSE DupNormalThreshold

\* the reason string of _is_duplicate, field by field
DupReason(d, sim) ==
    [matched |-> TRUE,
     number |-> d.number,
     title |-> Take(d.title, 60),
     similarity |-> Fmt2f(sim),
     threshold |-> DupThreshold(d),
     kind |-> IF _has_label(d, wontfix) THEN "wontfix" ELSE "existing"]

RECURSIVE DupScan_Strict(_, _, _)
\* a mutant of DupScan: the comparison is > instead of >=
DupScan_Strict(suggestion_trigrams, discussions, i) ==
    IF i > Len(discussions)
    THEN <<FALSE, NoReason>>
    ELSE LET d == discussions[i]
             sim == _similarity(suggestion_trigrams, DiscussionTrigrams(d))
         IN  IF ~SimGE(sim, DupThreshold(d)) \/ 100 * sim[1] = DupThreshold(d) * sim[2]
             THEN DupScan_Strict(suggestion_trigrams, discussions, i + 1)
             ELSE <<TRUE, DupReason(d, sim)>>

RECURSIVE DupScan(_, _, _)
\* the for loop of _is_duplicate from discussion i on
DupScan(suggestion_trigrams, discussions, i) ==
    IF i > Len(discussions)
    THEN <<FALSE, NoReason>>
    ELSE LET d == discussions[i]
             sim == _similarity(suggestion_trigrams, DiscussionTrigrams(d))
         IN  IF SimGE(sim, DupThreshold(d))
             THEN <<TRUE, DupReason(d, sim)>>
             ELSE DupScan(suggestion_trigrams, discussions, i + 1)

\* a mutant of _is_duplicate: the suggestion's trigrams are those of its title
_is_duplicate_TitleOnly(title, body, discussions) ==
    LET suggestion_trigrams == _text_to_trigrams(title)
    IN  IF suggestion_trigrams = {}
        THEN <<FALSE, NoReason>>
        ELSE DupScan(suggestion_trigrams, discussions, 1)

_is_duplicate(title, body, discussions) ==
    LET suggestion_trigrams == _text_to_trigrams(Join2(title, body))
    IN  IF suggestion_trigrams = {}
        THEN <<FALSE, NoReason>>
        ELSE DupScan(suggestion_trigrams, discussions, 1)

(***************************************************************************)
(* Topic selection.                                                        *)
(***************************************************************************)
CoverWontfixThreshold == 15
CoverNormalThreshold == 25

\* The roster entries seo, rss and accessibility, in the roster's order, each
\* with the Latin-script part of its name and of its keywords.
TOPIC_ROSTER ==
    << [id |-> "seo",
        name |-> <<"S","E","O">>,
        keywords |-> << <<"s","e","o">>, <<"h","1">> >>],
       [id |-> "rss",
        name |-> <<"R","S","S">>,
        keywords |-> << <<"r","s","s">>, <<"a","t","o","m">> >>],
       [id |-> "accessibility",
        name |-> <<"(","a","1","1","y",")">>,
        keywords |-> << <<"a","1","1","y">>, <<"a","r","i","a">> >>] >>

TopicIds == {TOPIC_ROSTER[i].id : i \in DOMAIN TOPIC_ROSTER}

\* Python's None, where a topic is expected
None == [id |-> "None"]

\* a mutant of CoverThreshold: the label is not looked at
CoverThreshold_NoLabel(d) == CoverNormalThreshold

CoverThreshold(d) ==
    IF _has_label(d, wontfix) THEN CoverWontfixThreshold ELSE CoverNormalThreshold

RECURSIVE CoverScan(_, _, _)
\* the for loop of _topic_is_covered from discussion i on; disc_trigrams and
\* sim are the locals of the code
CoverScan(topic_trigrams, discussions, i) ==
    IF i > Len(discussions)
    THEN FALSE
    ELSE \/ \E disc_trigrams \in {DiscussionTrigrams(discussions[i])} :
            \E sim \in {_similarity(topic_trigrams, disc_trigrams)} :
               SimGE(sim, CoverThreshold(discussions[i]))
         \/ CoverScan(topic_trigrams, discussions, i + 1)

TopicText(topic) == Join2(JoinWords(topic.keywords), topic.name)

\* a loop that leaves the newest discussion out
_topic_is_covered_SkipNewest(topic, discussions) ==
    \E topic_trigrams \in {_text_to_trigrams(TopicText(topic))} :
        /\ topic_trigrams # {}
        /\ CoverScan(topic_trigrams, discussions, 2)

\* topic_trigrams is the local of the code
_topic_is_covered(topic, discussions) ==
    \E topic_trigrams \in {_text_to_trigrams(TopicText(topic))} :
        /\ topic_trigrams # {}
        /\ CoverScan(topic_trigrams, discussions, 1)

RECURSIVE PickScan_IgnoreSkip(_, _, _)
\* a mutant of PickScan: skip_ids is not looked at
PickScan_IgnoreSkip(discussions, skip_ids, i) ==
    IF i > Len(TOPIC_ROSTER)
    THEN None
    ELSE IF _topic_is_covered(TOPIC_ROSTER[i], discussions)
         THEN PickScan_IgnoreSkip(discussions, skip_ids, i + 1)
         ELSE TOPIC_ROSTER[i]

RECURSIVE PickScan(_, _, _)
\* the for loop of _pick_topic from roster entry i on
PickScan(discussions, skip_ids, i) ==
    IF i > Len(TOPIC_ROSTER)
    THEN None
    ELSE LET topic == TOPIC_ROSTER[i]
         IN  IF topic.id \in skip_ids
             THEN PickScan(discussions, skip_ids, i + 1)
             ELSE IF _topic_is_covered(topic, discussions)
                  THEN PickScan(discussions, skip_ids, i + 1)
                  ELSE topic

_pick_topic(discussions, skip_ids) == PickScan(discussions, skip_ids, 1)

(***************************************************************************)
(* Python str methods and re patterns used by _parse_llm_json.             *)
(***************************************************************************)
Max(S) == CHOOSE x \in S : \A y \in S : x >= y

Least(S) == CHOOSE x \in S : \A y \in S : x <= y

\* s[n:]
Drop(s, n) == IF n >= Len(s) THEN <<>> ELSE SubSeq(s, n + 1, Len(s))

\* s.startswith(pat, i - 1)
StartsWithAt(s, i, pat) ==
    /\ i >= 1
    /\ i + Len(pat) - 1 <= Len(s)
    /\ SubSeq(s, i, i + Len(pat) - 1) = pat

\* s.find(pat, from - 1) + 1: the first place at or after from where pat
\* occurs, 0 when there is none
Find(s, pat, from) ==
    LET hits == {i \in from..(Len(s) - Len(pat) + 1) : StartsWithAt(s, i, pat)}
    IN  IF hits = {} THEN 0 ELSE Least(hits)

\* pat in s
Contains(s, pat) == Find(s, pat, 1) # 0

RECURSIVE SplitOn(_, _)
\* s.split(pat), pat not empty
SplitOn(s, pat) ==
    LET i == Find(s, pat, 1)
    IN  IF i = 0 THEN <<s>>
        ELSE <<SubSeq(s, 1, i - 1)>> \o SplitOn(Drop(s, i + Len(pat) - 1), pat)

\* s.strip(chars)
StripChars(s, chars) ==
    LET keep == {i \in DOMAIN s : s[i] \notin chars}
    IN  IF keep = {} THEN <<>> ELSE SubSeq(s, Least(keep), Max(keep))

\* s.strip()
Strip(s) == StripChars(s, SpaceChars)

RECURSIVE ReplaceAll(_, _, _)
\* s.replace(pat, rep), pat not empty
ReplaceAll(s, pat, rep) ==
    LET i == Find(s, pat, 1)
    IN  IF i = 0 THEN s
        ELSE SubSeq(s, 1, i - 1) \o rep
                 \o ReplaceAll(Drop(s, i + Len(pat) - 1), pat, rep)

\* the end of a match of \s* that starts at p
SkipSpace(s, p) == Least({q \in p..(Len(s) + 1) : q > Len(s) \/ ~IsSpace(s[q])})

Quote == "\""
Backslash == "\\"
Newline == "\n"
Tab == "\t"
\* the character U+0060, which a string literal of the module cannot hold
Backtick == "BACKTICK"
Fence == <<Backtick, Backtick, Backtick>>
FenceJson == Fence \o <<"j","s","o","n">>
k_title == <<"t","i","t","l","e">>
k_body == <<"b","o","d","y">>

(***************************************************************************)
(* json.loads: the decoder of the standard library, for texts that hold no *)
(* \u, \b or \f escape.  A value is a record with its Python type t.       *)
(***************************************************************************)
JsonFail == [ok |-> FALSE]

JsonOk(v, p) == [ok |-> TRUE, v |-> v, p |-> p]

JsonWs == {" ", "\t", "\n", "\r"}

EscapeOf == [c \in {Quote, Backslash, "/", "n", "t", "r"} |->
                IF c = "n" THEN Newline
                ELSE IF c = "t" THEN Tab
                ELSE IF c = "r" THEN "\r"
                ELSE c]

\* the end of the JSON whitespace that starts at p
SkipWs(s, p) == Least({q \in p..(Len(s) + 1) : q > Len(s) \/ s[q] \notin JsonWs})

RECURSIVE ScanString(_, _, _)
\* py_scanstring (strict) from the character after the opening quote
ScanString(s, i, acc) ==
    LET ends == {j \in i..Len(s) : s[j] \in {Quote, Backslash, Newline, Tab, "\r"}}
        j == Least(ends)
        chunk == acc \o SubSeq(s, i, j - 1)
    IN  IF ends = {} THEN JsonFail
        ELSE IF s[j] = Quote THEN JsonOk([t |-> "str", s |-> chunk], j + 1)
        ELSE IF s[j] = Backslash
             THEN IF j + 1 <= Len(s) /\ s[j + 1] \in DOMAIN EscapeOf
                  THEN ScanString(s, j + 2, Append(chunk, EscapeOf[s[j + 1]]))
                  ELSE JsonFail
        ELSE JsonFail

\* the end of a match of \d* that starts at p
SkipDigits(s, p) == Least({q \in p..(Len(s) + 1) : q > Len(s) \/ s[q] \notin Digits})

\* NUMBER_RE = (-?(?:0|[1-9]\d*))(\.\d+)?([eE][-+]?\d+)? matched at p, in its
\* parts; each gets the end of the part before it.  The integer part: its
\* end, p when there is none
IntEnd(s, p, i0) ==
    IF i0 <= Len(s) /\ s[i0] = "0" THEN i0 + 1
    ELSE IF i0 <= Len(s) /\ s[i0] \in Digits THEN SkipDigits(s, i0)
    ELSE p

FracEnd(s, p, i1) ==
    IF i1 # p /\ i1 + 1 <= Len(s) /\ s[i1] = "." /\ s[i1 + 1] \in Digits
    THEN SkipDigits(s, i1 + 1)
    ELSE i1

ExpDigitsEnd(s, f, e0) ==
    IF e0 # f /\ e0 <= Len(s) /\ s[e0] \in Digits THEN SkipDigits(s, e0) ELSE f

ExpEnd(s, p, f) ==
    ExpDigitsEnd(s, f,
                 IF f # p /\ f <= Len(s) /\ s[f] \in {"e", "E"}
                 THEN (IF f + 1 <= Len(s) /\ s[f + 1] \in {"-", "+"} THEN f + 2 ELSE f + 1)
                 ELSE f)

\* the end of the match of NUMBER_RE at p, p itself when there is none
NumberEnd(s, p) ==
    ExpEnd(s, p, FracEnd(s, p, IntEnd(s, p, IF p <= Len(s) /\ s[p] = "-"
                                            THEN p + 1 ELSE p)))

\* the rest of _scan_once: a number that ends at e, or one of the constants
ScanNumber(s, p, e) ==
    IF e # p
    THEN JsonOk([t |-> IF \E i \in p..(e - 1) : s[i] \in {".", "e", "E"}
                       THEN "float" ELSE "int"],
                e)
    ELSE IF StartsWithAt(s, p, <<"N","a","N">>) THEN JsonOk([t |-> "float"], p + 3)
    ELSE IF StartsWithAt(s, p, <<"I","n","f","i","n","i","t","y">>)
         THEN JsonOk([t |-> "float"], p + 8)
    ELSE IF StartsWithAt(s, p, <<"-","I","n","f","i","n","i","t","y">>)
         THEN JsonOk([t |-> "float"], p + 9)
    ELSE JsonFail

RECURSIVE ScanOnce(_, _), ObjItems(_, _, _), ArrItems(_, _, _)
\* what follows the opening brace, q the first character that is not space
ObjOpen(s, q) ==
    IF q > Len(s) THEN JsonFail
    ELSE IF s[q] = "}" THEN JsonOk([t |-> "dict", items |-> <<>>], q + 1)
    ELSE IF s[q] = Quote THEN ObjItems(s, q + 1, <<>>)
    ELSE JsonFail

\* what follows the opening bracket, q the first character that is not space
ArrOpen(s, q) ==
    IF q > Len(s) THEN JsonFail
    ELSE IF s[q] = "]" THEN JsonOk([t |-> "list", items |-> <<>>], q + 1)
    ELSE ArrItems(s, q, <<>>)

\* scanner.py_make_scanner._scan_once at p
ScanOnce(s, p) ==
    IF p > Len(s) THEN JsonFail
    ELSE IF s[p] = Quote THEN ScanString(s, p + 1, <<>>)
    ELSE IF s[p] = "{" THEN ObjOpen(s, SkipWs(s, p + 1))
    ELSE IF s[p] = "[" THEN ArrOpen(s, SkipWs(s, p + 1))
    ELSE IF StartsWithAt(s, p, <<"n","u","l","l">>) THEN JsonOk([t |-> "NoneType"], p + 4)
    ELSE IF StartsWithAt(s, p, <<"t","r","u","e">>) THEN JsonOk([t |-> "bool"], p + 4)
    ELSE IF StartsWithAt(s, p, <<"f","a","l","s","e">>) THEN JsonOk([t |-> "bool"], p + 5)
    ELSE ScanNumber(s, p, NumberEnd(s, p))

\* after a pair of an object, e the first character that is not space
ObjNext(s, items, e) ==
    IF e > Len(s) THEN JsonFail
    ELSE IF s[e] = "}" THEN JsonOk([t |-> "dict", items |-> items], e + 1)
    ELSE IF s[e] # "," THEN JsonFail
    ELSE IF StartsWithAt(s, SkipWs(s, e + 1), <<Quote>>)
         THEN ObjItems(s, SkipWs(s, e + 1) + 1, items)
         ELSE JsonFail

\* after the value of a pair
ObjValue(s, acc, key, val) ==
    IF ~val.ok THEN JsonFail
    ELSE ObjNext(s, Append(acc, [k |-> key.v.s, v |-> val.v]), SkipWs(s, val.p))

\* after the key of a pair, c the first character that is not space
ObjColon(s, acc, key, c) ==
    IF c > Len(s) \/ s[c] # ":" THEN JsonFail
    ELSE ObjValue(s, acc, key, ScanOnce(s, SkipWs(s, c + 1)))

ObjKey(s, acc, key) ==
    IF ~key.ok THEN JsonFail ELSE ObjColon(s, acc, key, SkipWs(s, key.p))

\* decoder.JSONObject from the character after a key's opening quote
ObjItems(s, p, acc) == ObjKey(s, acc, ScanString(s, p, <<>>))

\* after an element of an array, e the first character that is not space
ArrNext(s, items, e) ==
    IF e > Len(s) THEN JsonFail
    ELSE IF s[e] = "]" THEN JsonOk([t |-> "list", items |-> items], e + 1)
    ELSE IF s[e] # "," THEN JsonFail
    ELSE ArrItems(s, SkipWs(s, e + 1), items)

ArrValue(s, acc, val) ==
    IF ~val.ok THEN JsonFail ELSE ArrNext(s, Append(acc, val.v), SkipWs(s, val.p))

\* decoder.JSONArray from the first character of an element
ArrItems(s, p, acc) == ArrValue(s, acc, ScanOnce(s, p))

\* the document is the value and nothing but space after it
WholeDocument(s, r) ==
    IF r.ok /\ SkipWs(s, r.p) > Len(s) THEN [ok |-> TRUE, v |-> r.v] ELSE JsonFail

\* json.loads(s): ok is FALSE where it raises json.JSONDecodeError
JsonLoads(s) == WholeDocument(s, ScanOnce(s, SkipWs(s, 1)))

(***************************************************************************)
(* _sanitize_json_string and _parse_llm_json.                              *)
(***************************************************************************)
RECURSIVE SanitizeFrom(_, _, _, _)
\* the for loop of _sanitize_json_string from character i on
\* the characters up to the next one that takes a branch of the loop other
\* than the last are copied in one step
SanitizeFrom(json_str, i, in_string, escape_next) ==
    LET branching == {j \in i..Len(json_str) :
                        \/ json_str[j] \in {Backslash, Quote}
                        \/ in_string /\ json_str[j] = Newline}
        j == IF escape_next \/ branching = {} THEN i ELSE Least(branching)
        ch == json_str[j]
        copied == SubSeq(json_str, i, j - 1)
    IN  IF i > Len(json_str) THEN <<>>
        ELSE IF escape_next
        THEN <<ch>> \o SanitizeFrom(json_str, i + 1, in_string, FALSE)
        ELSE IF branching = {} THEN SubSeq(json_str, i, Len(json_str))
        ELSE IF ch = Backslash
        THEN copied \o <<ch>> \o SanitizeFrom(json_str, j + 1, in_string, TRUE)
        ELSE IF ch = Quote
        THEN copied \o <<ch>> \o SanitizeFrom(json_str, j + 1, ~in_string, FALSE)
        ELSE copied \o <<Backslash, "n">>
                 \o SanitizeFrom(json_str, j + 1, in_string, FALSE)

\* a line break inside a string becomes a space
_sanitize_json_string_Collapse(json_str) ==
    ReplaceAll(SanitizeFrom(json_str, 1, FALSE, FALSE), <<Backslash, "n">>, <<" ">>)

_sanitize_json_string(json_str) == SanitizeFrom(json_str, 1, FALSE, FALSE)

RECURSIVE AdminSanitizeFrom(_, _, _, _)
\* the for loop of _sanitize_json_string of admin_agent.py from character i
\* on: the loop above with one more branch, for a tab inside a string
AdminSanitizeFrom(json_str, i, in_string, escape_next) ==
    LET branching == {j \in i..Len(json_str) :
                        \/ json_str[j] \in {Backslash, Quote}
                        \/ in_string /\ json_str[j] \in {Newline, Tab}}
        j == IF escape_next \/ branching = {} THEN i ELSE Least(branching)
        ch == json_str[j]
        copied == SubSeq(json_str, i, j - 1)
    IN  IF i > Len(json_str) THEN <<>>
        ELSE IF escape_next
        THEN <<ch>> \o AdminSanitizeFrom(json_str, i + 1, in_string, FALSE)
        ELSE IF branching = {} THEN SubSeq(json_str, i, Len(json_str))
        ELSE IF ch = Backslash
        THEN copied \o <<ch>> \o AdminSanitizeFrom(json_str, j + 1, in_string, TRUE)
        ELSE IF ch = Quote
        THEN copied \o <<ch>> \o AdminSanitizeFrom(json_str, j + 1, ~in_string, FALSE)
        ELSE copied \o <<Backslash, IF ch = Newline THEN "n" ELSE "t">>
                 \o AdminSanitizeFrom(json_str, j + 1, in_string, FALSE)

\* _sanitize_json_string of admin_agent.py
admin_sanitize_json_string(json_str) == AdminSanitizeFrom(json_str, 1, FALSE, FALSE)

\* what a call of _parse_llm_json ends in: a dict, or an exception
Returned(title, body) == [raised |-> FALSE, title |-> title, body |-> body]

Raised(error) == [raised |-> TRUE, error |-> error]

\* Step 1: the text inside a markdown code block, if there is one
ExtractFenced(result_text) ==
    IF Contains(result_text, FenceJson)
    THEN SplitOn(SplitOn(result_text, FenceJson)[2], Fence)[1]
    ELSE IF Contains(result_text, Fence)
         THEN LET parts == SplitOn(result_text, Fence)
              IN  IF Len(parts) >= 2 THEN parts[2] ELSE result_text
         ELSE result_text

\* suggestion.get(key, ""), of a dict: the last item with the key wins
DictGet(suggestion, key) ==
    LET at == {i \in DOMAIN suggestion.items : suggestion.items[i].k = key}
    IN  IF at = {} THEN [t |-> "str", s |-> <<>>] ELSE suggestion.items[Max(at)].v

\* suggestion.get("title", "").strip() and the same for body, then the return
FromJson(suggestion) ==
    IF suggestion.t # "dict"
    THEN Raised("AttributeError")    \* no attribute 'get'
    ELSE LET title == DictGet(suggestion, k_title)
             body == DictGet(suggestion, k_body)
         IN  IF title.t # "str" \/ body.t # "str"
             THEN Raised("AttributeError")    \* no attribute 'strip'
             ELSE Returned(Strip(title.s), Strip(body.s))

\* the end of a match of "* that starts at p
SkipQuotes(s, p) == Least({q \in p..(Len(s) + 1) : q > Len(s) \/ s[q] # Quote})

\* "key"\s*:\s* matched at i: the place after the match, 0 when there is none
KeyColonEnd(s, i, key) ==
    LET quoted == <<Quote>> \o key \o <<Quote>>
        c == SkipSpace(s, i + Len(quoted))
    IN  IF StartsWithAt(s, i, quoted) /\ c <= Len(s) /\ s[c] = ":"
        THEN SkipSpace(s, c + 1)
        ELSE 0

\* .replace('\\"', '"').replace('\\n', '\n').strip()
Unescape(s) ==
    Strip(ReplaceAll(ReplaceAll(s, <<Backslash, Quote>>, <<Quote>>),
                     <<Backslash, "n">>, <<Newline>>))

NoMatch == [found |-> FALSE]

\* the title pattern has matched up to b, the opening quote of the group
TitleOpensAt(text, b) ==
    /\ b # 0
    /\ b <= Len(text)
    /\ text[b] = Quote
    /\ Find(text, <<Quote>>, b + 1) # 0

TitleGroup(text, b) ==
    [found |-> TRUE, group |-> SubSeq(text, b + 1, Find(text, <<Quote>>, b + 1) - 1)]

TitleSearchFrom(text, starts) ==
    IF starts = {} THEN NoMatch
    ELSE TitleGroup(text, KeyColonEnd(text, Least(starts), k_title))

\* re.search(r'"title"\s*:\s*"([^"]*(?:\\.[^"]*)*)"', text): group 1.  The
\* first alternative the engine tries ends the group at the first quote, and
\* it succeeds whenever any match does.
TitleSearch(text) ==
    TitleSearchFrom(text, {i \in DOMAIN text :
                             TitleOpensAt(text, KeyColonEnd(text, i, k_title))})

\* the quotes after which \s*\} matches
ClosingQuotes(text) ==
    {j \in DOMAIN text :
        /\ text[j] = Quote
        /\ StartsWithAt(text, SkipSpace(text, j + 1), <<"}">>)}

\* the body pattern has matched up to b, the opening quote of the group, and
\* a closing quote leaves the group at least one character
BodyOpensAt(text, b, closing) ==
    /\ b # 0
    /\ b <= Len(text)
    /\ text[b] = Quote
    /\ \E j \in closing : j >= b + 2

BodySearchFrom(text, starts, closing) ==
    IF starts = {} THEN NoMatch
    ELSE [found |-> TRUE,
          group |-> SubSeq(text, KeyColonEnd(text, Least(starts), k_body) + 1,
                           Max(closing) - 1)]

BodySearchWith(text, closing) ==
    BodySearchFrom(text,
                   {i \in DOMAIN text :
                      BodyOpensAt(text, KeyColonEnd(text, i, k_body), closing)},
                   closing)

\* re.search(r'"body"\s*:\s*"(.+)"\s*\}', text, re.DOTALL): group 1, which is
\* greedy and so ends at the last closing quote
BodySearch(text) == BodySearchWith(text, ClosingQuotes(text))

\* \s*"*\s*\} matches at q
TailMatches(text, q) ==
    StartsWithAt(text, SkipSpace(text, SkipQuotes(text, SkipSpace(text, q))), <<"}">>)

\* "body"\s*: matched at i: the place of the colon, 0 when there is none
BodyColon(text, i) ==
    IF /\ StartsWithAt(text, i, <<Quote>> \o k_body \o <<Quote>>)
       /\ StartsWithAt(text, SkipSpace(text, i + 6), <<":">>)
    THEN SkipSpace(text, i + 6)
    ELSE 0

\* the lazy group from g on
LazyGroup(text, g) ==
    [found |-> TRUE,
     group |-> SubSeq(text, g, Least({q \in g..Len(text) : TailMatches(text, q)}) - 1)]

BodyFallbackFrom(text, starts) ==
    IF starts = {} THEN NoMatch
    ELSE LazyGroup(text,
                   SkipSpace(text, SkipQuotes(text,
                       SkipSpace(text, BodyColon(text, Least(starts)) + 1))))

\* re.search(r'"body"\s*:\s*"*\s*(.*?)\s*"*\s*\}', text, re.DOTALL): group 1,
\* which is lazy and so ends at the first place where the rest matches; there
\* is a match when a brace follows the colon
BodyFallbackSearch(text) ==
    BodyFallbackFrom(text,
                     {i \in DOMAIN text :
                        /\ BodyColon(text, i) # 0
                        /\ \E j \in (BodyColon(text, i) + 1)..Len(text) : text[j] = "}"})

RECURSIVE SubFence(_, _)
\* re.sub(pat + r'\s*', '', s) for a literal pat
SubFence(s, pat) ==
    LET i == Find(s, pat, 1)
    IN  IF i = 0 THEN s
        ELSE SubSeq(s, 1, i - 1)
                 \o SubFence(Drop(s, SkipSpace(s, i + Len(pat)) - 1), pat)

\* \b(title|body)\b\s*:\s* matched at i: the place after the match, 0 when
\* there is none
WordColonEnd(s, i) ==
    LET word == IF StartsWithAt(s, i, k_title) THEN k_title
                ELSE IF StartsWithAt(s, i, k_body) THEN k_body
                ELSE <<>>
        after == i + Len(word)
        c == SkipSpace(s, after)
    IN  IF /\ word # <<>>
           /\ (i = 1 \/ ~IsWordChar(s[i - 1]))
           /\ (after > Len(s) \/ ~IsWordChar(s[after]))
           /\ c <= Len(s)
           /\ s[c] = ":"
        THEN SkipSpace(s, c + 1)
        ELSE 0

RECURSIVE SubWordColon(_, _)
\* re.sub(r'\b(title|body)\b\s*:\s*', '', s) from character i on
SubWordColon(s, i) ==
    LET hits == {j \in i..Len(s) : WordColonEnd(s, j) # 0}
    IN  IF hits = {} THEN Drop(s, i - 1)
        ELSE SubSeq(s, i, Least(hits) - 1)
                 \o SubWordColon(s, WordColonEnd(s, Least(hits)))

\* result_text.split(title, 1)[-1] if title in result_text else result_text
AfterTitle(result_text, title) ==
    IF Contains(result_text, title)
    THEN Drop(result_text, Find(result_text, title, 1) + Len(title) - 1)
    ELSE result_text

\* 4c: all text after the title, the JSON artifacts stripped; the title is
\* not empty
BodyAfterTitle(result_text, title) ==
    StripChars(
        SubFence(
            SubFence(
                SubWordColon(
                    SelectSeq(AfterTitle(result_text, title),
                              LAMBDA c : c \notin {"{", "}", Quote, Backslash}),
                    1),
                FenceJson),
            Fence),
        {" ", Newline, ","})

RECURSIVE SplitLinesFrom(_, _)
\* s.splitlines(), for the line breaks \n, \r and \r\n
SplitLinesFrom(s, i) ==
    LET breaks == {j \in i..Len(s) : s[j] \in {Newline, "\r"}}
        j == Least(breaks)
    IN  IF i > Len(s) THEN <<>>
        ELSE IF breaks = {} THEN <<SubSeq(s, i, Len(s))>>
        ELSE <<SubSeq(s, i, j - 1)>>
                 \o SplitLinesFrom(s, IF StartsWithAt(s, j, <<"\r", Newline>>)
                                      THEN j + 2 ELSE j + 1)

\* the title of Step 5 when no line qualifies, transliterated: the module's
\* strings are ASCII
DefaultTitle ==
    <<"P","r","e","d","l","o","z","h","e","n","i","e"," ","p","o"," ",
      "u","l","u","c","h","s","h","e","n","i","y","u"," ","b","l","o","g","a">>

TitleLimit == 80

\* the lines that neither are empty nor start with a brace, a quote, a fence
MeaningfulLines(all) ==
    SelectSeq([i \in DOMAIN all |-> Strip(all[i])],
              LAMBDA l : /\ l # <<>>
                         /\ l[1] \notin {"{", "}", Quote}
                         /\ ~StartsWithAt(l, 1, Fence))

FallbackTitle(lines) ==
    IF lines # <<>> THEN Take(lines[1], TitleLimit) ELSE DefaultTitle

\* Step 5: the first meaningful line as the title, the text without its code
\* fences as the body
FinalFallback(result_text) ==
    Returned(FallbackTitle(MeaningfulLines(SplitLinesFrom(Strip(result_text), 1))),
             Strip(SubFence(SubFence(result_text, FenceJson), Fence)))

\* the end of Step 4: 4c when the body is still empty, where split() raises
\* on an empty title; then the return, or Step 5 when the title is empty
RegexReturn(result_text, title, body) ==
    IF body = <<>> /\ title = <<>>
    THEN Raised("ValueError")    \* empty separator
    ELSE IF title = <<>> THEN FinalFallback(result_text)
    ELSE Returned(title,
                  IF body # <<>> THEN body ELSE BodyAfterTitle(result_text, title))

\* body_fallback.group(1).strip().strip('"').strip()
FallbackBody(body_fallback) ==
    IF body_fallback.found
    THEN Strip(StripChars(Strip(body_fallback.group), {Quote}))
    ELSE <<>>

\* 4b, when 4a has left the body empty
RegexBodyFallback(result_text, title, body) ==
    IF body # <<>> THEN RegexReturn(result_text, title, body)
    ELSE RegexReturn(result_text, title, FallbackBody(BodyFallbackSearch(result_text)))

\* body_match.group(1), unescaped and stripped
GreedyBody(body_match) ==
    IF body_match.found THEN Unescape(body_match.group) ELSE <<>>

\* Step 4, the title pattern having matched
RegexExtract(result_text, title_match) ==
    RegexBodyFallback(result_text, Unescape(title_match.group),
                      GreedyBody(BodySearch(result_text)))

\* Steps 4 and 5
RegexOrFallback(result_text, title_match) ==
    IF title_match.found THEN RegexExtract(result_text, title_match)
    ELSE FinalFallback(result_text)

\* Step 3 and what follows it
SanitizedOrRegex(result_text, sanitized) ==
    IF sanitized.ok THEN FromJson(sanitized.v)
    ELSE RegexOrFallback(result_text, TitleSearch(result_text))

\* Step 2 and what follows it; json_str is stripped
DirectOrSanitized(result_text, json_str, direct) ==
    IF direct.ok THEN FromJson(direct.v)
    ELSE SanitizedOrRegex(result_text, JsonLoads(_sanitize_json_string(json_str)))

ParseExtracted(result_text, json_str) ==
    DirectOrSanitized(result_text, json_str, JsonLoads(json_str))

_parse_llm_json(result_text) ==
    ParseExtracted(result_text, Strip(ExtractFenced(result_text)))

(***************************************************************************)
(* The inputs of the pure functions.                                       *)
(***************************************************************************)
w_seo == <<"s","e","o">>
w_SEO == <<"S","E","O","!">>
w_atom == <<"a","t","o","m">>
w_aria == <<"a","r","i","a">>
w_a11y == <<"a","1","1","y">>
w_rss == <<"r","s","s">>
w_h1 == <<"h","1">>
w_ux == <<"u","x">>

\* <<title, body>> of the discussions: upper case and punctuation; six
\* trigrams; only words shorter than three characters; eight trigrams; four
\* trigrams
PostTexts ==
    { <<w_SEO, JoinWords(<<w_atom, w_aria>>)>>,
      <<w_atom, JoinWords(<<w_aria, w_a11y>>)>>,
      <<w_h1, w_ux>>,
      <<w_rss, JoinWords(<<w_seo, w_aria, w_atom, w_a11y>>)>>,
      <<w_seo, JoinWords(<<w_rss, w_atom>>)>> }

l_WontFix == <<"W","o","n","t","F","i","x">>
l_bug == <<"b","u","g">>

\* a discussion: its <<title, body>> and its labels.nodes, which are empty
\* or hold the wontfix label (in the case GitHub shows it); two discussions
\* carry another label, one of them beside wontfix
PostShapes ==
    {[text |-> t, labels |-> l] : t \in PostTexts, l \in {<<>>, <<l_WontFix>>}}
    \cup {[text |-> <<w_seo, <<>> >>, labels |-> <<l_bug>>],
          [text |-> <<w_atom, JoinWords(<<w_aria, w_a11y>>)>>,
           labels |-> <<l_bug, l_WontFix>>]}

\* the discussions come newest first, so the numbers go down
MkCorpus(shapes) ==
    [i \in DOMAIN shapes |->
        [number |-> Len(shapes) - i + 1,
         title |-> shapes[i].text[1],
         body |-> shapes[i].text[2],
         labels |-> shapes[i].labels]]

Corpora == {MkCorpus(f) : f \in UNION {[1..k -> PostShapes] : k \in 0..MaxPosts}}

\* <<title, body>> of the suggestions: the empty one, texts of existing
\* discussions, and texts that overlap them in part
SuggestionTexts ==
    { << <<>>, <<>> >>,
      <<w_h1, w_ux>>,
      <<w_seo, <<>> >>,
      <<w_atom, JoinWords(<<w_aria, w_a11y>>)>>,
      <<w_atom, w_aria>>,
      <<w_rss, <<>> >> }

NoCall == [fn |-> "none"]

NoInput == [none |-> TRUE]

NoLaunch == [none |-> TRUE]

NoSuggestion == [none |-> TRUE]

NoResult == [outcome |-> "none"]

\* no call of run_once in progress
NoRun ==
    [pc |-> "idle", dry_run |-> FALSE, attempt |-> 0, discussions |-> <<>>,
     skip_ids |-> {},
     topic |-> None, suggestion |-> NoSuggestion,
     is_dup |-> "unset",
     last_error |-> "None",
     result |-> NoResult]

\* the pipeline before main has begun; the specifications of the pure
\* functions leave it there
PipelineIdle ==
    /\ launch = NoLaunch
    /\ board = <<>>
    /\ sched = "idle"
    /\ run_count = 0
    /\ exit_code = -1
    /\ run = NoRun
    /\ sleep = 0
    /\ at_read = <<>>
    /\ created = <<>>
    /\ skipped_run = {}
    /\ runs_done = <<>>

(***************************************************************************)
(* SpecSelect: _topic_is_covered and _pick_topic on drawn arguments.       *)
(***************************************************************************)
\* a topic's name and keywords, as the body of a discussion
VerbatimBody(topic) == Join2(topic.name, JoinWords(topic.keywords))

\* discussions without labels whose body is the first topic's name and
\* keywords: without a title, under a title of the topic's own words, and
\* under titles of two and of seven trigrams the topic does not have
VerbatimShapes ==
    {[text |-> <<title, VerbatimBody(TOPIC_ROSTER[1])>>, labels |-> <<>>] :
        title \in { <<>>, w_SEO, w_atom,
                    JoinWords(<<w_rss, w_aria, w_atom, w_a11y>>) }}

\* the discussions beside them: one that covers the second and the third
\* topic, one without trigrams
BesideShapes ==
    {[text |-> <<w_rss, JoinWords(<<w_seo, w_aria, w_atom, w_a11y>>)>>, labels |-> <<>>],
     [text |-> <<w_h1, w_ux>>, labels |-> <<>>]}

\* such a discussion alone, and before and after another one
VerbatimCorpora ==
    {MkCorpus(<<v>>) : v \in VerbatimShapes}
        \cup {MkCorpus(<<v, o>>) : v \in VerbatimShapes, o \in BesideShapes}
        \cup {MkCorpus(<<o, v>>) : v \in VerbatimShapes, o \in BesideShapes}

InitSelect ==
    /\ input \in {[discussions |-> c, skip_ids |-> s] :
                    c \in Corpora \cup VerbatimCorpora, s \in SUBSET TopicIds}
    /\ call = NoCall
    /\ PipelineIdle

CallTopicIsCovered ==
    \E i \in DOMAIN TOPIC_ROSTER :
        /\ call' = [fn |-> "_topic_is_covered",
                    topic |-> TOPIC_ROSTER[i],
                    discussions |-> input.discussions,
                    ret |-> _topic_is_covered(TOPIC_ROSTER[i], input.discussions)]
        /\ UNCHANGED <<input, pipelineVars>>

CallPickTopic ==
    /\ call' = [fn |-> "_pick_topic",
                discussions |-> input.discussions,
                skip_ids |-> input.skip_ids,
                ret |-> _pick_topic(input.discussions, input.skip_ids)]
    /\ UNCHANGED <<input, pipelineVars>>

NextSelect == CallTopicIsCovered \/ CallPickTopic

SpecSelect == InitSelect /\ [][NextSelect]_vars

(***************************************************************************)
(* SpecGuard: _is_duplicate on drawn arguments.                            *)
(***************************************************************************)
InitGuard ==
    /\ input \in {[title |-> t[1], body |-> t[2], discussions |-> c] :
                    t \in SuggestionTexts, c \in Corpora}
    /\ call = NoCall
    /\ PipelineIdle

CallIsDuplicate ==
    /\ call' = [fn |-> "_is_duplicate",
                title |-> input.title,
                body |-> input.body,
                discussions |-> input.discussions,
                ret |-> _is_duplicate(input.title, input.body, input.discussions)]
    /\ UNCHANGED <<input, pipelineVars>>

NextGuard == CallIsDuplicate

SpecGuard == InitGuard /\ [][NextGuard]_vars

(***************************************************************************)
(* SpecSim: _text_to_trigrams and _similarity on drawn pairs of texts.     *)
(***************************************************************************)
\* the texts compared: nothing, a space, punctuation alone, words shorter
\* than three characters, one word of three characters in lower and in upper
\* case with punctuation, and texts of several words that share some
\* one wording with and without punctuation inside it: a hyphen, full
\* stops, an underscore
PunctuatedTexts ==
    { w_seo \o w_rss,
      w_seo \o <<"-">> \o w_rss,
      <<"S", ".", "e", ".", "O", ".">> \o w_rss \o <<"!">>,
      w_seo \o <<"_">> \o w_rss }

SimTexts ==
    { <<>>, <<" ">>, <<"!">>, JoinWords(<<w_h1, w_ux>>),
      w_seo, w_SEO, w_rss, w_atom,
      JoinWords(<<w_atom, w_aria>>),
      JoinWords(<<w_aria, w_a11y>>),
      JoinWords(<<w_seo, w_rss, w_atom>>),
      JoinWords(<<w_rss, w_seo, w_aria, w_atom, w_a11y>>) }
      \cup PunctuatedTexts

InitSim ==
    /\ input \in {[a |-> a, b |-> b] : a \in SimTexts, b \in SimTexts}
    /\ call = NoCall
    /\ PipelineIdle

\* the two calls as _is_duplicate and _topic_is_covered make them
CallSimilarity ==
    /\ \E set_a \in {_text_to_trigrams(input.a)} :
       \E set_b \in {_text_to_trigrams(input.b)} :
          call' = [fn |-> "_similarity",
                   a |-> input.a,
                   b |-> input.b,
                   set_a |-> set_a,
                   set_b |-> set_b,
                   ret |-> _similarity(set_a, set_b)]
    /\ UNCHANGED <<input, pipelineVars>>

NextSim == CallSimilarity

SpecSim == InitSim /\ [][NextSim]_vars

(***************************************************************************)
(* The replies of the generation service.                                  *)
(***************************************************************************)
\* the object the prompt asks for, with the two texts as its values
JsonObject(title, body) ==
    <<"{", Quote>> \o k_title \o <<Quote, ":", " ", Quote>> \o title
        \o <<Quote, ",", " ", Quote>> \o k_body \o <<Quote, ":", " ", Quote>>
        \o body \o <<Quote, "}">>

\* {"title": value, "body": "ux"}, the value written as it stands
TitleObject(value) ==
    <<"{", Quote>> \o k_title \o <<Quote, ":", " ">> \o value
        \o <<",", " ", Quote>> \o k_body \o <<Quote, ":", " ", Quote>>
        \o w_ux \o <<Quote, "}">>

w_null == <<"n","u","l","l">>

\* replies that are the JSON object asked for
WellFormedReplies == {JsonObject(t[1], t[2]) : t \in SuggestionTexts}

\* replies that decode as JSON but not as an object of two strings: a list, a
\* number, null, a string; a number, null and a list as the title; an object
\* without a title
OtherJsonReplies ==
    { <<"[", "]">>, <<"1">>, w_null, <<Quote>> \o w_h1 \o <<Quote>>,
      TitleObject(<<"1">>), TitleObject(w_null), TitleObject(<<"[", "]">>),
      <<"{", Quote>> \o k_body \o <<Quote, ":", " ", Quote>> \o w_ux \o <<Quote, "}">> }

\* replies that do not decode: a raw line break and a raw tab in the body; an
\* unescaped quote in the body; the body outside its quotes; the object cut
\* after the body, after the title and after an empty title; prose; nothing
BrokenReplies ==
    { JsonObject(w_h1, <<"u", Newline, "x">>),
      JsonObject(w_h1, <<"u", Tab, "x">>),
      JsonObject(w_h1, <<"u", Quote, "x">>),
      <<"{", Quote>> \o k_title \o <<Quote, ":", " ", Quote>> \o w_h1
          \o <<Quote, ",", " ", Quote>> \o k_body \o <<Quote, ":", " ", Quote, Quote, " ">>
          \o w_ux \o <<"}">>,
      <<"{", Quote>> \o k_title \o <<Quote, ":", " ", Quote>> \o w_h1
          \o <<Quote, ",", " ", Quote>> \o k_body \o <<Quote, ":", " ", Quote>> \o w_ux,
      <<"{", Quote>> \o k_title \o <<Quote, ":", " ", Quote>> \o w_h1 \o <<Quote>>,
      <<"{", Quote>> \o k_title \o <<Quote, ":", " ", Quote, Quote>>,
      Join2(w_h1, w_ux),
      <<>> }

\* the reply as it stands, in a json code block, in a plain code block
Wrappings(reply) ==
    { reply,
      FenceJson \o <<Newline>> \o reply \o <<Newline>> \o Fence,
      Fence \o <<Newline>> \o reply \o <<Newline>> \o Fence }

Replies == UNION {Wrappings(r) : r \in WellFormedReplies \cup OtherJsonReplies \cup BrokenReplies}

(***************************************************************************)
(* SpecParse: _parse_llm_json and _sanitize_json_string on drawn replies.  *)
(***************************************************************************)
\* titles and bodies with raw line breaks: between two characters, doubled,
\* before a tab, and at the start and at the end of the value
NewlineTitles == { w_h1, <<"h", Newline, "1">>, <<"h", "1", Newline>> }

NewlineBodies ==
    { w_ux,
      <<"u", Newline, "x">>,
      <<"u", Newline, Newline, "x">>,
      <<"u", Newline, Tab, "x">>,
      <<Newline, "u", "x">>,
      <<"u", "x", Newline>> }

\* the object asked for, its values written with the line breaks as they
\* are, together with the two texts it was written from
NewlineObjects ==
    UNION {{[result_text |-> r, title |-> t[1], body |-> t[2]] :
               r \in Wrappings(JsonObject(t[1], t[2]))}
           : t \in NewlineTitles \X NewlineBodies}

\* texts for the scanner: a tab inside a string, a tab after an escaped
\* quote inside a string, a line break and a tab between two members, a line
\* break written as its escape, a backslash before a line break, and a
\* string that is not closed
ScannerTexts ==
    { JsonObject(w_h1, <<"u", Tab, "x">>),
      JsonObject(<<"h", Backslash, Quote, Tab, "1">>, <<"u", Newline, "x">>),
      <<"{", Quote>> \o k_title \o <<Quote, ":", " ", Quote>> \o w_h1
          \o <<Quote, ",", Newline, Tab, Quote>> \o k_body \o <<Quote, ":", " ", Quote>>
          \o w_ux \o <<Quote, "}">>,
      JsonObject(w_h1, <<"u", Backslash, "n", "x">>),
      JsonObject(w_h1, <<"u", Backslash, Newline, Tab, "x">>),
      <<Newline, Quote, "u", Tab, Newline, "x">> }

InitParse ==
    /\ input \in {[result_text |-> r] : r \in Replies \cup ScannerTexts}
                     \cup NewlineObjects
    /\ call = NoCall
    /\ PipelineIdle

CallParseLlmJson ==
    /\ call' = [fn |-> "_parse_llm_json",
                result_text |-> input.result_text,
                ret |-> _parse_llm_json(input.result_text)]
    /\ UNCHANGED <<input, pipelineVars>>

CallSanitizeJsonString ==
    /\ call' = [fn |-> "_sanitize_json_string",
                json_str |-> input.result_text,
                ret |-> _sanitize_json_string(input.result_text)]
    /\ UNCHANGED <<input, pipelineVars>>

CallAdminSanitizeJsonString ==
    /\ call' = [fn |-> "admin_agent._sanitize_json_string",
                json_str |-> input.result_text,
                ret |-> admin_sanitize_json_string(input.result_text)]
    /\ UNCHANGED <<input, pipelineVars>>

NextParse ==
    \/ CallParseLlmJson
    \/ CallSanitizeJsonString
    \/ CallAdminSanitizeJsonString

SpecParse == InitParse /\ [][NextParse]_vars

(***************************************************************************)
(* The pipeline: main, run_periodic, run_once and the discussion board.    *)
(***************************************************************************)
MAX_RETRIES == 3

RETRY_DELAY_SECONDS == 15

schedule_interval_minutes == 60

\* the discussions one query of fetch_existing_discussions asks for
FetchLimit == 20

c_Ideas == <<"I","d","e","a","s">>
c_ideas == <<"i","d","e","a","s">>
c_General == <<"G","e","n","e","r","a","l">>
c_polls == <<"p","o","l","l","s">>

\* the discussion categories of the repository, as the board names them
RepoCategories == <<c_General, c_Ideas>>

\* the boards main may find: empty; a discussion of the category and one of
\* another category; a discussion of the category under the wontfix label
InitialBoards ==
    { <<>>,
      << [number |-> 2, title |-> w_atom, body |-> JoinWords(<<w_aria, w_a11y>>),
          category |-> c_Ideas, labels |-> <<>>],
         [number |-> 1, title |-> w_seo, body |-> JoinWords(<<w_rss, w_atom>>),
          category |-> c_General, labels |-> <<>>] >>,
      << [number |-> 1, title |-> w_seo, body |-> JoinWords(<<w_rss, w_atom>>),
          category |-> c_Ideas, labels |-> <<l_WontFix>>] >> }

\* --once, --dry-run; where the GitHub token is set: in the environment (and
\* so in the config), in the config file only, nowhere; the configured
\* category
Launches ==
    { [once |-> FALSE, dry_run |-> FALSE, token |-> "env", category |-> c_ideas],
      [once |-> TRUE, dry_run |-> FALSE, token |-> "env", category |-> c_ideas],
      [once |-> FALSE, dry_run |-> TRUE, token |-> "none", category |-> c_ideas],
      [once |-> TRUE, dry_run |-> TRUE, token |-> "env", category |-> c_ideas],
      [once |-> TRUE, dry_run |-> FALSE, token |-> "none", category |-> c_ideas],
      [once |-> TRUE, dry_run |-> FALSE, token |-> "yaml", category |-> c_ideas],
      [once |-> TRUE, dry_run |-> FALSE, token |-> "env", category |-> c_polls] }

\* what the generation service answers in the pipeline: a suggestion that is
\* a discussion of the board, one without trigrams, the empty one, one with
\* an empty body, and a list
PipelineReplies ==
    { JsonObject(w_atom, JoinWords(<<w_aria, w_a11y>>)),
      JsonObject(w_h1, w_ux),
      JsonObject(<<>>, <<>>),
      JsonObject(w_seo, <<>>),
      <<"[", "]">> }

\* _parse_llm_json on each of them, computed once
ParsedReplies == [reply \in PipelineReplies |-> _parse_llm_json(reply)]

\* chain.invoke raises
NoReply == <<"N", "o", "R", "e", "p", "l", "y">>

\* the discussions of a category, compared as the code compares the names
CategoryPosts(b, category) ==
    SelectSeq(b, LAMBDA d : Lower(d.category) = Lower(category))

\* fetch_existing_discussions when its query succeeds: the newest
\* discussions, then the filter
FetchedDiscussions(b, category) ==
    IF category # <<>> THEN CategoryPosts(Take(b, FetchLimit), category)
    ELSE Take(b, FetchLimit)

\* a fetch that hands out again what an earlier attempt of the run has read
fetch_existing_discussions_Reused(b, category, token, api_ok) ==
    IF at_read # <<>> THEN at_read
    ELSE IF token = "env" /\ api_ok THEN FetchedDiscussions(b, category) ELSE <<>>

\* fetch_existing_discussions: the query fails without the token in the
\* environment (_get_headers raises) and when the API fails; every
\* exception ends in the empty list
fetch_existing_discussions(b, category, token, api_ok) ==
    IF token = "env" /\ api_ok THEN FetchedDiscussions(b, category) ELSE <<>>

\* post_discussion's search of the category id: the place in RepoCategories,
\* 0 for None
CategoryId(category) ==
    IF \E i \in DOMAIN RepoCategories : Lower(RepoCategories[i]) = Lower(category)
    THEN Least({i \in DOMAIN RepoCategories :
                  Lower(RepoCategories[i]) = Lower(category)})
    ELSE 0

\* the board after createDiscussion
BoardWith(b, title, body, category_id) ==
    << [number |-> Len(b) + 1, title |-> title, body |-> body,
        category |-> RepoCategories[category_id], labels |-> <<>>] >> \o b

\* what post_discussion ends in, given how the API behaves: "ok", "fails"
\* (a query or the mutation raises and nothing is created), "lost" (the
\* mutation is applied and the call raises all the same: its answer times
\* out or is not the expected one).  error is "none" when it returns url.
PostCreating(b, title, body, category_id, api) ==
    IF api = "fails"
    THEN [board |-> b, error |-> "HTTPError"]
    ELSE IF api = "lost"
    THEN [board |-> BoardWith(b, title, body, category_id), error |-> "ReadTimeout"]
    ELSE [board |-> BoardWith(b, title, body, category_id), error |-> "none",
          url |-> [kind |-> "url", number |-> Len(b) + 1]]

\* a lookup that raises when the category is missing
PostInCategory_Raises(b, title, body, category_id, api) ==
    IF category_id = 0
    THEN [board |-> b, error |-> "CategoryNotFound"]
    ELSE PostCreating(b, title, body, category_id, api)

PostInCategory(b, title, body, category_id, api) ==
    IF category_id = 0
    THEN [board |-> b, error |-> "none", url |-> [kind |-> "category not found"]]
    ELSE PostCreating(b, title, body, category_id, api)

post_discussion(b, title, body, category, token, api) ==
    IF title = <<>> \/ body = <<>>
    THEN [board |-> b, error |-> "none", url |-> [kind |-> "skipped"]]
    ELSE IF token # "env"
    THEN [board |-> b, error |-> "ValueError"]    \* _get_headers
    ELSE IF api = "fails" THEN [board |-> b, error |-> "HTTPError"]
    ELSE PostInCategory(b, title, body, CategoryId(category), api)

PostApi == {"ok", "fails", "lost"}

\* the results of run_once
ResultNothing == [outcome |-> "nothing to suggest"]

ResultDryRun(r) ==
    [outcome |-> "dry run", topic |-> r.topic.name,
     title |-> r.suggestion.title, body |-> r.suggestion.body]

ResultPosted(url) == [outcome |-> "posted", url |-> url]

ResultError(error) == [outcome |-> "error", error |-> error]

\* a call that does not pass dry_run on
FirstAttempt_NoDryRun(dry_run) ==
    [NoRun EXCEPT !.pc = "fetch_site", !.dry_run = FALSE, !.attempt = 1]

\* a new call of run_once, at its first attempt
FirstAttempt(dry_run) ==
    [NoRun EXCEPT !.pc = "fetch_site", !.dry_run = dry_run, !.attempt = 1]

\* the caller starts run_once
StartRun(dry_run) ==
    /\ run' = FirstAttempt(dry_run)
    /\ sleep' = 0
    /\ at_read' = <<>>
    /\ created' = <<>>
    /\ skipped_run' = {}

\* run_once returns: its locals are gone
Returned_run_once(r, res) == [NoRun EXCEPT !.pc = "returned", !.result = res]

\* run_once's except clause: further attempts wait for the retry delay, the
\* last one leaves the loop, and run_once returns the error.  The locals of
\* the try block are not read again before the next attempt assigns them.
\* last_error is read only by the return after the last attempt, which has
\* just assigned it: it is kept up to the end of the sleep, where the log
\* shows it.
Failed(r, error) ==
    IF r.attempt < MAX_RETRIES
    THEN [NoRun EXCEPT !.pc = "retry_sleep", !.dry_run = r.dry_run,
                       !.attempt = r.attempt, !.last_error = error]
    ELSE Returned_run_once(r, ResultError(error))

\* delay = RETRY_DELAY_SECONDS * attempt, slept where run_once waits
RetryDelay(r) ==
    IF r.pc = "retry_sleep" THEN RETRY_DELAY_SECONDS * r.attempt ELSE 0

\* main, up to the call of run_once or run_periodic
Main ==
    /\ sched = "main"
    /\ IF launch.token = "none" /\ ~launch.dry_run
       THEN /\ sched' = "exited"
            /\ exit_code' = 1
            /\ UNCHANGED <<run_count, run, sleep, at_read, created, skipped_run>>
       ELSE IF launch.once \/ launch.dry_run
       THEN /\ sched' = "once"
            /\ StartRun(launch.dry_run)
            /\ UNCHANGED <<run_count, exit_code>>
       ELSE /\ sched' = "periodic"
            /\ run_count' = 1
            /\ StartRun(FALSE)
            /\ UNCHANGED exit_code
    /\ UNCHANGED <<pureVars, launch, board, runs_done>>

\* Steps 1-2: fetch_site_data returns or raises
FetchSiteData ==
    /\ run.pc = "fetch_site"
    /\ \E ok \in BOOLEAN :
         run' = IF ok THEN [run EXCEPT !.pc = "fetch_discussions"]
                ELSE Failed(run, "HTTPError")
    /\ sleep' = RetryDelay(run')
    /\ UNCHANGED <<pureVars, launch, board, schedVars, histVars>>

\* Step 3: fetch_existing_discussions, and skip_ids = set()
FetchExistingDiscussions ==
    /\ run.pc = "fetch_discussions"
    /\ \E api_ok \in BOOLEAN :
         run' = [run EXCEPT !.pc = "pick",
                            !.discussions = fetch_existing_discussions(
                                board, launch.category, launch.token, api_ok),
                            !.skip_ids = {}]
    /\ at_read' = CategoryPosts(board, launch.category)
    /\ UNCHANGED <<pureVars, launch, board, schedVars, sleep, created,
                   skipped_run, runs_done>>

\* the loop after _pick_topic: without a topic run_once returns
Picked(r, t) ==
    IF t = None
    THEN Returned_run_once(r, ResultNothing)
    ELSE [r EXCEPT !.pc = "llm", !.topic = t, !.is_dup = "unset"]

\* Step 4, the head of the loop
PickTopic ==
    /\ run.pc = "pick"
    /\ run' = Picked(run, _pick_topic(run.discussions, run.skip_ids))
    /\ UNCHANGED <<pureVars, launch, board, schedVars, sleep, histVars>>

\* a loop that does not note the topic
SkipAdd_Forget(ids, id) == ids

\* skip_ids.add(topic["id"])
SkipAdd(ids, id) == ids \cup {id}

\* a loop that continues without noting the topic
Skipped_NoAdd(r) == [r EXCEPT !.pc = "pick"]

\* the topic is skipped and the loop continues; the suggestion is not read
\* again
Skipped(r) ==
    [r EXCEPT !.pc = "pick", !.skip_ids = SkipAdd(r.skip_ids, r.topic.id)]

\* a loop that breaks whatever the verdict
Guarded_NoGuard(r, sg, verdict) ==
    [r EXCEPT !.pc = "post", !.suggestion = sg, !.is_dup = "False"]

\* after _is_duplicate; is_dup, written as Python prints it, is unset up to
\* here and not read after the next _pick_topic
Guarded(r, sg, verdict) ==
    IF verdict[1] THEN Skipped([r EXCEPT !.is_dup = "True"])
    ELSE [r EXCEPT !.pc = "post", !.suggestion = sg, !.is_dup = "False"]

\* a loop without the test of the empty suggestion
Suggested_NoSentinel(r, sg) ==
    Guarded(r, sg, _is_duplicate(sg.title, sg.body, r.discussions))

\* after run_llm_analysis has returned
Suggested(r, sg) ==
    IF sg.title = <<>> /\ sg.body = <<>> THEN Skipped(r)
    ELSE Guarded(r, sg, _is_duplicate(sg.title, sg.body, r.discussions))

\* after _parse_llm_json
Parsed(r, parsed) ==
    IF parsed.raised THEN Failed(r, parsed.error)
    ELSE Suggested(r, [title |-> parsed.title, body |-> parsed.body])

\* Step 4, the rest of the loop: run_llm_analysis, the sentinel, the guard
RunLlmAnalysis ==
    /\ run.pc = "llm"
    /\ \E reply \in PipelineReplies \cup {NoReply} :
         run' = IF reply = NoReply THEN Failed(run, "ConnectionError")
                ELSE Parsed(run, ParsedReplies[reply])
    /\ sleep' = RetryDelay(run')
    /\ skipped_run' = IF run'.pc = "pick" THEN skipped_run \cup {run.topic.id}
                      ELSE skipped_run
    /\ UNCHANGED <<pureVars, launch, board, schedVars, at_read, created, runs_done>>

\* after post_discussion
Posted(r, post) ==
    IF post.error # "none" THEN Failed(r, post.error)
    ELSE Returned_run_once(r, ResultPosted(post.url))

\* Step 5 without --dry-run
Publish(post) ==
    /\ Len(post.board) <= MaxBoard
    /\ run' = Posted(run, post)
    /\ board' = post.board
    /\ created' = IF post.board # board
                  THEN Append(created, [title |-> run.suggestion.title,
                                        body |-> run.suggestion.body,
                                        at_read |-> at_read])
                  ELSE created

\* Step 5
PostStep ==
    /\ run.pc = "post"
    /\ IF run.dry_run
       THEN /\ run' = Returned_run_once(run, ResultDryRun(run))
            /\ UNCHANGED <<board, created>>
       ELSE \E api \in PostApi :
              \E post \in {post_discussion(board, run.suggestion.title,
                                           run.suggestion.body, launch.category,
                                           launch.token, api)} :
                  Publish(post)
    /\ sleep' = RetryDelay(run')
    /\ UNCHANGED <<pureVars, launch, schedVars, at_read, skipped_run, runs_done>>

\* time.sleep(delay) returns and the next attempt begins
NextAttempt ==
    /\ run.pc = "retry_sleep"
    /\ run' = [run EXCEPT !.pc = "fetch_site", !.attempt = run.attempt + 1,
                          !.last_error = "None"]
    /\ sleep' = 0
    /\ UNCHANGED <<pureVars, launch, board, schedVars, histVars>>

\* main prints the result of its one run and ends; a print that raises ends
\* the process with the traceback
OnceReturns ==
    /\ sched = "once"
    /\ run.pc = "returned"
    /\ \E print_ok \in BOOLEAN :
         exit_code' = IF print_ok THEN 0 ELSE 1
    /\ sched' = "exited"
    /\ run' = NoRun
    /\ UNCHANGED <<pureVars, launch, board, run_count, sleep, histVars>>

\* a loop without the except clause: the exception ends run_periodic
periodic_except_Propagate(error) == "crashed"

\* run_periodic's except clause: the error is logged and the loop goes on
periodic_except(error) == "sleeping"

\* run_periodic after run_once has returned: the prints, which may raise
\* inside the try, then the sleep of the interval
PeriodicReturns ==
    /\ sched = "periodic"
    /\ run.pc = "returned"
    /\ \E print_ok \in BOOLEAN :
         /\ sched' = IF print_ok THEN "sleeping" ELSE periodic_except("OSError")
         /\ runs_done' = Append(runs_done,
                                [failed |-> run.result.outcome = "error" \/ ~print_ok])
    /\ sleep' = IF sched' = "sleeping" THEN schedule_interval_minutes * 60 ELSE 0
    /\ run' = NoRun
    /\ at_read' = <<>>
    /\ created' = <<>>
    /\ skipped_run' = {}
    /\ UNCHANGED <<pureVars, launch, board, run_count, exit_code>>

\* time.sleep(interval) returns and the loop starts the next run
PeriodicWakes ==
    /\ sched = "sleeping"
    /\ run_count < MaxRuns
    /\ sched' = "periodic"
    /\ run_count' = run_count + 1
    /\ StartRun(FALSE)
    /\ UNCHANGED <<pureVars, launch, board, exit_code, runs_done>>

Init ==
    /\ input = NoInput
    /\ call = NoCall
    /\ launch \in Launches
    /\ board \in InitialBoards
    /\ sched = "main"
    /\ run_count = 0
    /\ exit_code = -1
    /\ run = NoRun
    /\ sleep = 0
    /\ at_read = <<>>
    /\ created = <<>>
    /\ skipped_run = {}
    /\ runs_done = <<>>

Next ==
    \/ Main
    \/ FetchSiteData
    \/ FetchExistingDiscussions
    \/ PickTopic
    \/ RunLlmAnalysis
    \/ PostStep
    \/ NextAttempt
    \/ OnceReturns
    \/ PeriodicReturns
    \/ PeriodicWakes

Spec == Init /\ [][Next]_vars

\* the process keeps running: a call in progress returns or raises, a sleep
\* ends
FairSpec == Spec /\ WF_vars(Next)

(***************************************************************************)
(* SpecRetry: the retry loops of the agents, each around one operation     *)
(* whose outcome at every attempt is drawn beforehand.                     *)
(***************************************************************************)
\* time.sleep(10) of fetch_implement_discussions
FetchRetrySleep == 10

\* the loops: the function and the operation inside the try block, the
\* attempts of the for loop, the delay, and what follows the loop when no
\* attempt has succeeded: a return or a raise, of what, and whether the text
\* of last_error is part of it.  run_once and process_discussion read MAX_RETRIES
\* and RETRY_DELAY_SECONDS of their modules, which have the same values;
\* run_assessment and fetch_implement_discussions have the numbers in place.
RetrySites ==
    { [fn |-> "run_once", operation |-> "pipeline",
       max_attempts |-> MAX_RETRIES, base |-> RETRY_DELAY_SECONDS, linear |-> TRUE,
       exhausted |-> [raised |-> FALSE, value |-> "Error after 3 retries", with_error |-> TRUE]],
      [fn |-> "run_assessment", operation |-> "chain.invoke",
       max_attempts |-> 3, base |-> 15, linear |-> TRUE,
       exhausted |-> [raised |-> FALSE, value |-> "Error after 3 retries", with_error |-> TRUE]],
      [fn |-> "process_discussion", operation |-> "generate_changes",
       max_attempts |-> MAX_RETRIES, base |-> RETRY_DELAY_SECONDS, linear |-> TRUE,
       exhausted |-> [raised |-> FALSE, value |-> "None", with_error |-> FALSE]],
      [fn |-> "fetch_implement_discussions", operation |-> "_graphql_query",
       max_attempts |-> 3, base |-> FetchRetrySleep, linear |-> FALSE,
       exhausted |-> [raised |-> TRUE, value |-> "RuntimeError", with_error |-> TRUE]] }

\* what an attempt of the operation ends in: its result, or an exception
\* of a class under Exception
OperationOutcomes == {"result", "ConnectionError", "HTTPError"}

InitRetry ==
    /\ input \in {[site |-> site, outcomes |-> outcomes] :
                    site \in RetrySites,
                    outcomes \in [1..MAX_RETRIES -> OperationOutcomes]}
    /\ call = NoCall
    /\ PipelineIdle

\* the function goes on with the result of the operation, or returns it
OperationResult == [raised |-> FALSE, value |-> "result", error |-> "None"]

\* the fixed delay, that is the delay the loop would have without the
\* factor attempt
RetrySleepSeconds_Fixed(site, attempt) == site.base

\* delay = RETRY_DELAY_SECONDS * attempt, or the fixed delay
RetrySleepSeconds(site, attempt) ==
    IF site.linear THEN site.base * attempt ELSE site.base

\* a loop that sleeps after every failed attempt
SleepsAfter_Always(site, attempt) == TRUE

\* if attempt < MAX_RETRIES
SleepsAfter(site, attempt) == attempt < site.max_attempts

\* the for loop goes to its next attempt, or ends: the code after the loop
\* returns the error text or None, or raises
LoopNext(site, c) ==
    IF c.attempt < site.max_attempts
    THEN [c EXCEPT !.pc = "try", !.attempt = c.attempt + 1]
    ELSE [c EXCEPT !.pc = "done",
                   !.ret = [raised |-> site.exhausted.raised,
                            value |-> site.exhausted.value,
                            error |-> IF site.exhausted.with_error
                                      THEN c.last_error ELSE "None"]]

\* the function is called and its loop begins
RetryBegin ==
    /\ call = NoCall
    /\ call' = [fn |-> input.site.fn, pc |-> "try", attempt |-> 1, trace |-> <<>>,
                last_error |-> "None", ret |-> NoResult]
    /\ UNCHANGED <<input, pipelineVars>>

\* one pass of the try block: the operation returns and the function goes
\* on with its result, or it raises and the except clause runs up to the
\* sleep
RetryAttempt ==
    /\ call.fn # "none"
    /\ call.pc = "try"
    /\ \E outcome \in {input.outcomes[call.attempt]} :
       \E tried \in {[call EXCEPT !.trace = Append(call.trace,
                                     [event |-> "attempt", attempt |-> call.attempt,
                                      outcome |-> outcome])]} :
          call' = IF outcome = "result"
                  THEN [tried EXCEPT !.pc = "done",
                                     !.ret = OperationResult]
                  ELSE IF SleepsAfter(input.site, call.attempt)
                  THEN [tried EXCEPT !.pc = "sleep", !.last_error = outcome]
                  ELSE LoopNext(input.site, [tried EXCEPT !.last_error = outcome])
    /\ UNCHANGED <<input, pipelineVars>>

\* time.sleep(delay) returns
RetrySleep ==
    /\ call.fn # "none"
    /\ call.pc = "sleep"
    /\ call' = LoopNext(input.site,
                        [call EXCEPT !.trace = Append(call.trace,
                            [event |-> "sleep",
                             seconds |-> RetrySleepSeconds(input.site, call.attempt)])])
    /\ UNCHANGED <<input, pipelineVars>>

NextRetry == RetryBegin \/ RetryAttempt \/ RetrySleep

SpecRetry == InitRetry /\ [][NextRetry]_vars

(***************************************************************************)
(* SpecAssessor: main of site_assessor.py around run_assessment; the       *)
(* outcome of every site fetch and of every generation call is drawn       *)
(* beforehand.                                                             *)
(***************************************************************************)
\* range(1, 4) of the site fetch and max_retries of the generation call
AssessorAttempts == 3

\* time.sleep(10) between two site fetches
AssessorFetchSleep == 10

\* delay = 15 * attempt between two generation calls
AssessorRetryDelay == 15

\* what the message of the exception of a site fetch reads
e_dns == <<"d", "n", "s">>

\* what the message of the exception of a generation call reads
e_503 == <<"5", "0", "3">>

\* replies of the generation service: a report, a report whose first word
\* begins with "Error", and one that begins with it in lower case
AssessorReplies == {<<"#", " ", "S", "E", "O">>, <<"E", "r", "r", "o", "r", "s", ":", " ", "0">>, <<"e", "r", "r", "o", "r">>}

\* f"Error fetching site after 3 attempts: {e}"
ErrorFetchingText(e) == <<"E", "r", "r", "o", "r", " ", "f", "e", "t", "c", "h", "i", "n", "g", " ", "s", "i", "t", "e", " ", "a", "f", "t", "e", "r", " ", "3", " ", "a", "t", "t", "e", "m", "p", "t", "s", ":", " ">> \o e

\* f"Error after {max_retries} retries: {last_error}"
ErrorRetriesText(e) == <<"E", "r", "r", "o", "r", " ", "a", "f", "t", "e", "r", " ", "3", " ", "r", "e", "t", "r", "i", "e", "s", ":", " ">> \o e

\* a test that lets every result through
IsErrorReport_Never(result) == FALSE

\* result.startswith("Error")
IsErrorReport(result) == StartsWithAt(result, 1, <<"E", "r", "r", "o", "r">>)

InitAssessor ==
    /\ input \in {[post_discussion |-> p, token |-> t, output |-> o, chain |-> c,
                   fetches |-> f, replies |-> r] :
                    p \in BOOLEAN, t \in {"", "env"}, o \in BOOLEAN,
                    c \in {"chain", "raise"},
                    f \in [1..AssessorAttempts -> {"report", "raise"}],
                    r \in [1..AssessorAttempts -> AssessorReplies \cup {<<>>}]}
    /\ call = NoCall
    /\ PipelineIdle

\* a reply of <<>> stands for chain.invoke raising
InvokeRaises(reply) == reply = <<>>

\* main up to the call of run_assessment: without a token nothing is
\* assessed when the report is to be posted
AssessorMain ==
    /\ call = NoCall
    /\ call' = [fn |-> "main",
                pc |-> IF input.post_discussion /\ input.token = "" THEN "exited"
                       ELSE "fetch",
                attempt |-> 1, slept |-> 0, result |-> <<>>, saved |-> FALSE,
                posted |-> <<>>,
                exit |-> IF input.post_discussion /\ input.token = "" THEN 1 ELSE -1]
    /\ UNCHANGED <<input, pipelineVars>>

\* one pass of the site fetch loop of run_assessment
AssessorFetch ==
    /\ call # NoCall
    /\ call.pc = "fetch"
    /\ call' = IF input.fetches[call.attempt] = "report"
               THEN [call EXCEPT !.pc = "chain", !.attempt = 1]
               ELSE IF call.attempt < AssessorAttempts
               THEN [call EXCEPT !.pc = "fetch_sleep"]
               ELSE [call EXCEPT !.pc = "report", !.result = ErrorFetchingText(e_dns)]
    /\ UNCHANGED <<input, pipelineVars>>

\* the arguments of the chain and the chain itself are built; an exception
\* here leaves run_assessment and main
AssessorChain ==
    /\ call # NoCall
    /\ call.pc = "chain"
    /\ call' = IF input.chain = "chain"
               THEN [call EXCEPT !.pc = "invoke"]
               ELSE [call EXCEPT !.pc = "exited", !.exit = 1]
    /\ UNCHANGED <<input, pipelineVars>>

\* one pass of the generation loop of run_assessment
AssessorInvoke ==
    /\ call # NoCall
    /\ call.pc = "invoke"
    /\ call' = IF ~InvokeRaises(input.replies[call.attempt])
               THEN [call EXCEPT !.pc = "report", !.result = input.replies[call.attempt]]
               ELSE IF call.attempt < AssessorAttempts
               THEN [call EXCEPT !.pc = "invoke_sleep"]
               ELSE [call EXCEPT !.pc = "report", !.result = ErrorRetriesText(e_503)]
    /\ UNCHANGED <<input, pipelineVars>>

\* time.sleep of either loop, and the next pass
AssessorSleep ==
    /\ call # NoCall
    /\ call.pc \in {"fetch_sleep", "invoke_sleep"}
    /\ call' = IF call.pc = "fetch_sleep"
               THEN [call EXCEPT !.pc = "fetch", !.attempt = @ + 1,
                                 !.slept = @ + AssessorFetchSleep]
               ELSE [call EXCEPT !.pc = "invoke", !.attempt = @ + 1,
                                 !.slept = @ + AssessorRetryDelay * call.attempt]
    /\ UNCHANGED <<input, pipelineVars>>

\* main after run_assessment: the result is printed, saved with --output,
\* and with --post-discussion tested for an error report
AssessorReport ==
    /\ call # NoCall
    /\ call.pc = "report"
    /\ call' = IF input.post_discussion /\ ~IsErrorReport(call.result)
               THEN [call EXCEPT !.pc = "post", !.saved = input.output]
               ELSE [call EXCEPT !.pc = "done", !.saved = input.output, !.exit = 0]
    /\ UNCHANGED <<input, pipelineVars>>

\* post_discussion(repo, title, body, category), the body ending with the
\* result
AssessorPost ==
    /\ call # NoCall
    /\ call.pc = "post"
    /\ call' = [call EXCEPT !.pc = "done", !.exit = 0,
                            !.posted = Append(@, [result |-> call.result])]
    /\ UNCHANGED <<input, pipelineVars>>

NextAssessor ==
    \/ AssessorMain
    \/ AssessorFetch
    \/ AssessorChain
    \/ AssessorInvoke
    \/ AssessorSleep
    \/ AssessorReport
    \/ AssessorPost

SpecAssessor == InitAssessor /\ [][NextAssessor]_vars

(***************************************************************************)
(* SpecAdmin: run_pipeline of admin_agent.py over the discussions of the    *)
(* repository; call.github holds the comments GitHub has for each.         *)
(***************************************************************************)
\* comments(first: 30) of the query of fetch_implement_discussions
CommentsFirst == 30

BOT_MARKER == <<"<", "!", "-", "-", " ", "a", "d", "m", "i", "n", "-", "a", "g", "e", "n", "t", "-", "p", "r", " ", "-", "-", ">">>

l_Implement == <<"I", "m", "p", "l", "e", "m", "e", "n", "t">>

\* the body comment_on_discussion posts, cut after its first words
BotCommentBody == BOT_MARKER \o <<"\n", "P", "R">>

BotComment == [body |-> BotCommentBody, author |-> "bot"]

PlainComment == [body |-> <<"o", "k">>, author |-> "user"]

\* a reader who quotes the marker
QuotingComment == [body |-> <<"s", "e", "e", " ">> \o BOT_MARKER, author |-> "user"]

\* n comments of readers
PlainComments(n) == [i \in 1..n |-> PlainComment]

\* the comments of the discussion when the agent starts
AdminThreads ==
    { <<>>,
      <<BotComment>>,
      <<PlainComment, BotComment>>,
      <<QuotingComment>>,
      PlainComments(CommentsFirst - 1) \o <<BotComment>>,
      PlainComments(CommentsFirst) \o <<BotComment>>,
      PlainComments(CommentsFirst) }

\* the discussions of the repository, each as its comments: one, or two
\* of which the second has no comment
AdminBoards ==
    {<<t>> : t \in AdminThreads} \cup {<<t, <<>> >> : t \in AdminThreads}

InitAdmin ==
    /\ input \in {[threads |-> b, labels |-> l, dry_run |-> d, once |-> o] :
                    b \in AdminBoards, l \in {<<l_Implement>>, <<l_WontFix>>},
                    d \in BOOLEAN, o \in BOOLEAN}
    /\ call = NoCall
    /\ PipelineIdle

\* the nodes GitHub returns for comments(first: 30)
FetchedComments(github) == Take(github, CommentsFirst)

\* a check that never finds the marker
is_already_processed_Never(discussion) == FALSE

\* is_already_processed(discussion)
is_already_processed(discussion) ==
    \E i \in DOMAIN discussion.comments :
        Contains(discussion.comments[i].body, BOT_MARKER)

\* "implement" in labels, of the lower-cased names
HasImplementLabel(labels) ==
    \E i \in DOMAIN labels : Lower(labels[i]) = Lower(l_Implement)

\* what fetch_implement_discussions returns when its query succeeds
ImplementDiscussions(github, labels) ==
    IF HasImplementLabel(labels)
    THEN [n \in DOMAIN github |->
             [number |-> n, comments |-> FetchedComments(github[n])]]
    ELSE <<>>

\* run_pipeline is called
AdminStart ==
    /\ call = NoCall
    /\ call' = [fn |-> "run_pipeline", pc |-> "fetch", cycle |-> 1,
                fetched |-> "unset", github |-> input.threads,
                pull_requests |-> [n \in DOMAIN input.threads |-> 0],
                todo |-> <<>>, at |-> 0, results |-> <<>>,
                before |-> <<>>, discussion |-> [number |-> 0, comments |-> <<>>],
                attempt |-> 0, generation_calls |-> 0, prs |-> 0, commented |-> 0,
                branch_exists |-> FALSE, api |-> "unset", ret |-> "unset"]
    /\ UNCHANGED <<input, pipelineVars>>

\* process_discussion is called with the next fetched discussion
Process(c, n) ==
    [c EXCEPT !.pc = "check", !.at = n, !.before = c.github[c.todo[n].number],
              !.discussion = c.todo[n],
              !.attempt = 0, !.generation_calls = 0, !.prs = 0, !.commented = 0,
              !.branch_exists = FALSE, !.api = "unset", !.ret = "unset"]

\* process_discussion returns, or raises ("raised"), to the loop of
\* run_pipeline
ReturnedFrom(c, ret) ==
    [c EXCEPT !.pc = "returned", !.ret = ret, !.results = Append(@, ret)]

\* a loop that ends the cycle when process_discussion has raised
AfterDiscussion_StopOnRaise(c) ==
    IF c.at < Len(c.todo) /\ c.ret # "raised" THEN Process(c, c.at + 1)
    ELSE [c EXCEPT !.pc = "cycle_end"]

\* the for loop of run_pipeline after one discussion
AfterDiscussion(c) ==
    IF c.at < Len(c.todo) THEN Process(c, c.at + 1)
    ELSE [c EXCEPT !.pc = "cycle_end"]

\* fetch_implement_discussions, which raises after three failed queries, and
\* the head of the loop over the discussions it returns
AdminFetch ==
    /\ call # NoCall
    /\ call.pc = "fetch"
    /\ \E outcome \in {"nodes", "RuntimeError"} :
       \E c \in {[call EXCEPT !.fetched = outcome, !.results = <<>>, !.at = 0,
                              !.todo = IF outcome = "nodes"
                                       THEN ImplementDiscussions(call.github, input.labels)
                                       ELSE <<>>]} :
          call' = IF c.todo # <<>> THEN Process(c, 1)
                  ELSE [c EXCEPT !.pc = "cycle_end", !.ret = "unset"]
    /\ UNCHANGED <<input, pipelineVars>>

\* the first statement of process_discussion
AdminCheck ==
    /\ call # NoCall
    /\ call.pc = "check"
    /\ call' = IF is_already_processed(call.discussion)
               THEN ReturnedFrom(call, "None")
               ELSE [call EXCEPT !.pc = "context", !.attempt = 1]
    /\ UNCHANGED <<input, pipelineVars>>

\* one pass of a loop of process_discussion has raised
AdminRaised(c, max_attempts) ==
    IF c.attempt < max_attempts
    THEN [c EXCEPT !.attempt = @ + 1]
    ELSE ReturnedFrom(c, "None")

\* one pass of the loop around fetch_context_for_discussion, and the test of
\* source_context after it
AdminContext ==
    /\ call # NoCall
    /\ call.pc = "context"
    /\ \E outcome \in {"context", "empty", "raise"} :
          call' = CASE outcome = "context" -> [call EXCEPT !.pc = "generate", !.attempt = 1]
                    [] outcome = "empty" -> ReturnedFrom(call, "None")
                    [] OTHER -> AdminRaised(call, 3)
    /\ UNCHANGED <<input, pipelineVars>>

\* process_discussion after generate_changes has returned changes with files
Generated(c) ==
    IF input.dry_run THEN ReturnedFrom(c, "None")
    ELSE [c EXCEPT !.pc = "pr", !.attempt = 1]

\* one pass of the loop around generate_changes, and the tests of changes
\* after it; a target_repo that is a list makes the test against the set of
\* the known repositories raise TypeError, outside every try of
\* process_discussion
AdminGenerate ==
    /\ call # NoCall
    /\ call.pc = "generate"
    /\ \E outcome \in {"changes", "infeasible", "no_files", "empty", "raise",
                       "target_repo_list"} :
          \E c \in {[call EXCEPT !.generation_calls = @ + 1]} :
             call' = CASE outcome = "changes" -> Generated(c)
                       [] outcome = "raise" -> AdminRaised(c, MAX_RETRIES)
                       [] outcome = "target_repo_list" -> ReturnedFrom(c, "raised")
                       [] OTHER -> ReturnedFrom(c, "None")
    /\ UNCHANGED <<input, pipelineVars>>

\* the requests of apply_changes_as_pr, in their order
PrSteps == <<"default_branch", "create_branch", "commit", "pull_request">>

\* the place of a step in PrSteps, 5 for "none"
StepAt(step) ==
    IF \E i \in DOMAIN PrSteps : PrSteps[i] = step
    THEN CHOOSE i \in DOMAIN PrSteps : PrSteps[i] = step
    ELSE Len(PrSteps) + 1

\* the request at which an attempt of apply_changes_as_pr raises, 5 when it
\* returns the PR: the one the API fails at, and at the latest create_branch
\* when the branch of this call of process_discussion exists already
\* (GitHub answers 422 "Reference already exists")
FailsAt(api, branch_exists) ==
    IF branch_exists /\ StepAt(api) > StepAt("create_branch")
    THEN StepAt("create_branch")
    ELSE StepAt(api)

\* one pass of the loop around apply_changes_as_pr and comment_on_discussion;
\* api is the request the GitHub API fails at in this pass, "none" when it
\* works; the branch name is computed once, before the loop;
\* comment_on_discussion returns without the comment after three failures
AdminCreatePR ==
    /\ call # NoCall
    /\ call.pc = "pr"
    /\ \E api \in Range(PrSteps) \cup {"none"} :
       \E comment \in {"commented", "not_commented"} :
       \E fails_at \in {FailsAt(api, call.branch_exists)} :
       \E c \in {[call EXCEPT !.api = api,
                              !.branch_exists =
                                  @ \/ fails_at > StepAt("create_branch")]} :
          call' = IF fails_at <= Len(PrSteps) THEN AdminRaised(c, MAX_RETRIES)
                  ELSE ReturnedFrom(
                          [c EXCEPT !.prs = @ + 1,
                                    !.pull_requests[c.discussion.number] = @ + 1,
                                    !.commented = IF comment = "commented" THEN @ + 1 ELSE @,
                                    !.github[c.discussion.number] =
                                        IF comment = "commented"
                                        THEN Append(@, BotComment) ELSE @],
                          "pr_url")
    /\ UNCHANGED <<input, pipelineVars>>

\* the except clause and the foot of the for loop of run_pipeline
AdminNextDiscussion ==
    /\ call # NoCall
    /\ call.pc = "returned"
    /\ call' = AfterDiscussion(call)
    /\ UNCHANGED <<input, pipelineVars>>

\* the foot of the loop of run_pipeline: it ends with --once, sleeps and
\* starts over without
AdminCycleEnd ==
    /\ call # NoCall
    /\ call.pc = "cycle_end"
    /\ input.once \/ call.cycle < MaxCycles
    /\ call' = IF input.once THEN [call EXCEPT !.pc = "done"]
               ELSE [call EXCEPT !.pc = "fetch", !.cycle = @ + 1]
    /\ UNCHANGED <<input, pipelineVars>>

NextAdmin ==
    \/ AdminStart
    \/ AdminFetch
    \/ AdminCheck
    \/ AdminContext
    \/ AdminGenerate
    \/ AdminCreatePR
    \/ AdminNextDiscussion
    \/ AdminCycleEnd

SpecAdmin == InitAdmin /\ [][NextAdmin]_vars

(***************************************************************************)
(* Claims about topic selection (SpecSelect).                              *)
(***************************************************************************)
Min(S) == CHOOSE x \in S : \A y \in S : x <= y

\* the similarity of a topic's fingerprint (keywords + name) and a discussion
TopicSim(topic, d) ==
    _similarity(_text_to_trigrams(TopicText(topic)), DiscussionTrigrams(d))

\* the roster entries that are neither excluded nor covered
Available(discussions, skip_ids) ==
    {i \in DOMAIN TOPIC_ROSTER :
        /\ TOPIC_ROSTER[i].id \notin skip_ids
        /\ ~_topic_is_covered(TOPIC_ROSTER[i], discussions)}

\* C6: _pick_topic returns the first roster entry, in roster order, that is
\* not in skip_ids and not covered; None exactly when there is no such entry;
\* so never an excluded topic, and roster[0] for an empty corpus and an empty
\* exclusion set.
C6_PickFirstAvailable ==
    call.fn = "_pick_topic" =>
        LET avail == Available(call.discussions, call.skip_ids)
        IN  /\ (avail = {}) <=> (call.ret = None)
            /\ avail # {} => call.ret = TOPIC_ROSTER[Min(avail)]
            /\ call.ret # None => call.ret.id \notin call.skip_ids
            /\ (call.discussions = <<>> /\ call.skip_ids = {})
                    => call.ret = TOPIC_ROSTER[1]

\* the first entry is excluded, the second is covered, the third is returned
C6_Witness ==
    /\ call.fn = "_pick_topic"
    /\ call.skip_ids = {"seo"}
    /\ _topic_is_covered(TOPIC_ROSTER[2], call.discussions)
    /\ call.ret = TOPIC_ROSTER[3]

\* C8: _topic_is_covered is true exactly when some discussion has a
\* similarity to the topic fingerprint >= 0.15 if it carries the wontfix
\* label and >= 0.25 otherwise; a labelled discussion covers the topic
\* wherever the same discussion without the label does, and also at the
\* similarities in [0.15, 0.25).
C8_CoveredIffThreshold ==
    call.fn = "_topic_is_covered" =>
        /\ call.ret <=>
             \E i \in DOMAIN call.discussions :
                LET d == call.discussions[i]
                    sim == TopicSim(call.topic, d)
                IN  \/ _has_label(d, wontfix) /\ SimGE(sim, 15)
                    \/ ~_has_label(d, wontfix) /\ SimGE(sim, 25)
        /\ \A i \in DOMAIN call.discussions :
                LET d == call.discussions[i]
                    sim == TopicSim(call.topic, d)
                    labelled == [d EXCEPT !.labels = <<wontfix>>]
                    plain == [d EXCEPT !.labels = <<>>]
                IN  /\ _topic_is_covered(call.topic, <<plain>>)
                        => _topic_is_covered(call.topic, <<labelled>>)
                    /\ (SimGE(sim, 15) /\ ~SimGE(sim, 25))
                        => /\ _topic_is_covered(call.topic, <<labelled>>)
                           /\ ~_topic_is_covered(call.topic, <<plain>>)

\* the topic is covered by a labelled discussion alone, at a similarity in
\* [0.15, 0.25), while an unlabelled one at such a similarity does not cover
C8_Witness ==
    /\ call.fn = "_topic_is_covered"
    /\ call.ret
    /\ Len(call.discussions) = 2
    /\ \E i \in DOMAIN call.discussions :
          /\ _has_label(call.discussions[i], wontfix)
          /\ SimGE(TopicSim(call.topic, call.discussions[i]), 15)
          /\ ~SimGE(TopicSim(call.topic, call.discussions[i]), 25)
          /\ \A j \in DOMAIN call.discussions \ {i} :
                /\ ~_has_label(call.discussions[j], wontfix)
                /\ SimGE(TopicSim(call.topic, call.discussions[j]), 15)
                /\ ~SimGE(TopicSim(call.topic, call.discussions[j]), 25)

(***************************************************************************)
(* Claims about the duplicate guard (SpecGuard).                           *)
(***************************************************************************)
\* the similarity of a suggestion and a discussion
SuggestionSim(title, body, d) ==
    _similarity(_text_to_trigrams(Join2(title, body)), DiscussionTrigrams(d))

\* the discussions that meet their threshold of the duplicate guard
DupHits(title, body, discussions) ==
    {i \in DOMAIN discussions :
        LET sim == SuggestionSim(title, body, discussions[i])
        IN  \/ _has_label(discussions[i], wontfix) /\ SimGE(sim, 20)
            \/ ~_has_label(discussions[i], wontfix) /\ SimGE(sim, 35)}

\* the discussions whose title and body are those of the suggestion
Identical(title, body, discussions) ==
    {i \in DOMAIN discussions :
        discussions[i].title = title /\ discussions[i].body = body}

\* C9: _is_duplicate returns true exactly when some discussion has a
\* similarity to the suggestion >= 0.20 (wontfix label) or >= 0.35 (other);
\* the reason then names the first such discussion in corpus order, the
\* similarity and the threshold used; otherwise the result is (False, "").
C9_DuplicateIffThreshold ==
    call.fn = "_is_duplicate" =>
        LET hits == DupHits(call.title, call.body, call.discussions)
        IN  IF hits = {}
            THEN call.ret = <<FALSE, NoReason>>
            ELSE LET d == call.discussions[Min(hits)]
                 IN  /\ call.ret[1] = TRUE
                     /\ call.ret[2].matched
                     /\ call.ret[2].number = d.number
                     /\ call.ret[2].similarity =
                            Fmt2f(SuggestionSim(call.title, call.body, d))
                     /\ call.ret[2].threshold =
                            (IF _has_label(d, wontfix) THEN 20 ELSE 35)

\* two discussions meet their threshold, the first of them by its wontfix
\* label only, and the reason names the first
C9_Witness ==
    /\ call.fn = "_is_duplicate"
    /\ call.ret[1] = TRUE
    /\ DupHits(call.title, call.body, call.discussions) = {1, 2}
    /\ call.ret[2].number = call.discussions[1].number
    /\ call.ret[2].threshold = 20
    /\ call.ret[2].similarity < 35

\* C10 as stated: whenever the corpus holds a discussion identical in wording
\* to the suggestion, the result is (True, reason) and the reason names an
\* identical discussion.
C10_IdenticalIsNamed ==
    (call.fn = "_is_duplicate"
        /\ Identical(call.title, call.body, call.discussions) # {})
    => /\ call.ret[1] = TRUE
       /\ \E i \in Identical(call.title, call.body, call.discussions) :
              call.ret[2].number = call.discussions[i].number

\* C10 as amended: for a suggestion that has at least one trigram, and a
\* corpus that holds a discussion identical in wording to it, the result is
\* (True, reason); the reason names the first discussion in corpus order
\* that meets its threshold, which is the identical one when no earlier
\* discussion meets its threshold.
C10_IdenticalIsDuplicate ==
    (call.fn = "_is_duplicate"
        /\ _text_to_trigrams(Join2(call.title, call.body)) # {}
        /\ Identical(call.title, call.body, call.discussions) # {})
    => LET k == Min(Identical(call.title, call.body, call.discussions))
           hits == DupHits(call.title, call.body, call.discussions)
       IN  /\ call.ret[1] = TRUE
           /\ k \in hits
           /\ call.ret[2].number = call.discussions[Min(hits)].number
           /\ (\A j \in 1..(k - 1) : j \notin hits)
                => call.ret[2].number = call.discussions[k].number

\* the identical discussion is the second of the corpus, the first does not
\* meet its threshold, and the reason names the second
C10_Witness ==
    /\ call.fn = "_is_duplicate"
    /\ Identical(call.title, call.body, call.discussions) = {2}
    /\ DupHits(call.title, call.body, call.discussions) = {2}
    /\ call.ret[1] = TRUE
    /\ call.ret[2].number = call.discussions[2].number

(***************************************************************************)
(* Claims about the reply parser (SpecParse).                              *)
(***************************************************************************)
\* C4: _parse_llm_json is total: for every input string it returns a dict
\* whose title and body are both strings, and it never raises.
C4_ParseIsTotal ==
    call.fn = "_parse_llm_json" => ~call.ret.raised

\* the parser has raised on a reply that decodes as JSON
C4_RaisedOnJson ==
    /\ call.fn = "_parse_llm_json"
    /\ call.ret.raised
    /\ JsonLoads(Strip(ExtractFenced(call.result_text))).ok

(***************************************************************************)
(* Claims about the pipeline (Spec, FairSpec).                             *)
(***************************************************************************)
\* C1: every discussion that run_once publishes is a non-duplicate, by the
\* thresholds of _is_duplicate, of every discussion the configured category
\* held when the attempt read the existing discussions, whether that read
\* succeeded or failed.
C1_PublishedIsNotDuplicate ==
    \A i \in DOMAIN created :
        ~_is_duplicate(created[i].title, created[i].body, created[i].at_read)[1]

\* run_once has published a discussion while the category held discussions
C1_PublishedBesideOthers ==
    \E i \in DOMAIN created : created[i].at_read # <<>>

\* C2: within one call of run_once, all its retry attempts together, a topic
\* id once added to skip_ids is never returned by _pick_topic again before
\* run_once returns.
C2_NotPickedAgainInRun ==
    run.pc = "llm" => run.topic.id \notin skipped_run

\* a later attempt of the same call has been given a topic that an earlier
\* attempt had added to skip_ids
C2_PickedAgainAfterRetry ==
    /\ run.pc = "llm"
    /\ run.attempt > 1
    /\ run.skip_ids = {}
    /\ run.topic.id \in skipped_run

\* C3: in one call of run_once, all retry attempts included, at most one
\* discussion is created on the board.
C3_AtMostOneCreated == Len(created) <= 1

\* a call of run_once has created two discussions
C3_TwoCreated == Len(created) = 2

\* C5: a run that fails never stops run_periodic: after every run, whether
\* run_once has returned a result, has returned the error or an exception has
\* reached run_periodic, the loop sleeps the configured interval; what follows
\* the sleep is the next run, at its first attempt; run_count changes only
\* while no call of run_once is in progress; and from every run the loop goes
\* on to the next ones (up to run number MaxRuns).
C5_SchedulerSurvives ==
    /\ [][(sched = "periodic" /\ run.pc = "returned")
             => (sched' = "sleeping" /\ sleep' = schedule_interval_minutes * 60)]_vars
    /\ [][(sched = "sleeping" /\ sched' # "sleeping")
             => (sched' = "periodic" /\ run'.pc = "fetch_site" /\ run'.attempt = 1
                 /\ run_count' = run_count + 1)]_vars
    /\ [][run_count' # run_count => run.pc = "idle"]_vars
    /\ (sched = "periodic" /\ run_count < MaxRuns)
          ~> (sched = "periodic" /\ run.pc = "fetch_site" /\ run_count = MaxRuns)

\* run_periodic has started a run after a run that failed
C5_Witness ==
    /\ sched = "periodic"
    /\ run_count = 2
    /\ runs_done # <<>>
    /\ runs_done[1].failed

(***************************************************************************)
(* Claims about the trigram similarity (SpecSim).                          *)
(***************************************************************************)
\* C11: the similarity of two texts is the same in both orders of the
\* arguments, and it lies between 0 and 1
C11_SymmetricAndBounded ==
    call.fn = "_similarity" =>
        /\ call.ret = _similarity(_text_to_trigrams(call.b), _text_to_trigrams(call.a))
        /\ call.ret[2] > 0
        /\ 0 <= call.ret[1]
        /\ call.ret[1] <= call.ret[2]

\* two different texts that share some trigrams and not all
C11_Witness ==
    /\ call.fn = "_similarity"
    /\ call.a # call.b
    /\ call.set_a # call.set_b
    /\ 0 < call.ret[1]
    /\ call.ret[1] < call.ret[2]

\* after lower-casing and removal of the punctuation
HasLongWord(text) == \E word \in Range(Split(Cleaned(text))) : Len(word) >= 3

\* C12: a text with a word of three characters or more is at similarity 1.0
\* from itself; every text is at 0.0 from the empty text; the similarity is
\* 0.0 whenever one of the two trigram sets is empty
C12_SelfAndEmpty ==
    call.fn = "_similarity" =>
        /\ (call.a = call.b /\ HasLongWord(call.a)) => call.ret[1] = call.ret[2]
        /\ (call.a = <<>> \/ call.b = <<>>) => call.ret[1] = 0
        /\ (call.set_a = {} \/ call.set_b = {}) => call.ret[1] = 0

\* a text of one word of three characters, compared with itself
C12_Witness ==
    /\ call.fn = "_similarity"
    /\ call.a = call.b
    /\ HasLongWord(call.a)
    /\ Cardinality(call.set_a) = 1
    /\ call.ret = <<1, 1>>

(***************************************************************************)
(* Claims about the parser's round trip (SpecParse).                       *)
(***************************************************************************)
\* the reply is an object written from a title and a body of which one at
\* least holds a raw line break
RawNewlineObject ==
    /\ "body" \in DOMAIN input
    /\ Newline \in Range(input.title) \cup Range(input.body)

Attempts == SelectSeq(call.trace, LAMBDA e : e.event = "attempt")

Sleeps == SelectSeq(call.trace, LAMBDA e : e.event = "sleep")

\* the attempts at which the operation is drawn to succeed
Succeeding == {n \in DOMAIN input.outcomes : input.outcomes[n] = "result"}

RetryDone == call.fn # "none" /\ call.pc = "done"

\* C14: an operation that fails at its first k attempts and succeeds at the
\* next one is attempted k + 1 times and its result is what the loop ends
\* with, after k sleeps, each between two attempts; no loop attempts its
\* operation more than three times or ends on a sleep
C14_AttemptsAndSleeps ==
    /\ call.fn # "none" => Len(Attempts) <= MAX_RETRIES
    /\ RetryDone =>
          /\ call.trace[Len(call.trace)].event = "attempt"
          /\ \A i \in 1..(Len(call.trace) - 1) :
                call.trace[i].event = "sleep" =>
                    /\ i > 1
                    /\ call.trace[i - 1].event = "attempt"
                    /\ call.trace[i + 1].event = "attempt"
          /\ Succeeding # {} =>
                /\ Len(Attempts) = Min(Succeeding)
                /\ Len(Sleeps) = Min(Succeeding) - 1
                /\ call.ret = OperationResult

\* two failures, then the result at the third attempt
C14_Witness ==
    /\ RetryDone
    /\ Min(Succeeding \cup {4}) = 3
    /\ Len(Attempts) = 3
    /\ Len(Sleeps) = 2
    /\ call.ret.value = "result"

\* C15 as stated: when all the attempts have failed, the loop ends in the
\* exception of the last attempt, raised to the caller
C15_ReraisesLastError ==
    (RetryDone /\ Succeeding = {}) =>
        /\ call.ret.raised
        /\ call.ret.value = input.outcomes[MAX_RETRIES]

\* run_once after three failed attempts: it returns a text
C15_ReturnsErrorText ==
    /\ RetryDone
    /\ call.fn = "run_once"
    /\ Succeeding = {}
    /\ Len(Attempts) = MAX_RETRIES
    /\ ~call.ret.raised
    /\ call.ret.value = "Error after 3 retries"
    /\ call.ret.error = input.outcomes[MAX_RETRIES]

\* the loops around the generation and around the whole pipeline, which
\* ends in the publication
LinearSite == input.site.fn # "fetch_implement_discussions"

RECURSIVE SumSeconds(_)
SumSeconds(sleeps) ==
    IF sleeps = <<>> THEN 0 ELSE Head(sleeps).seconds + SumSeconds(Tail(sleeps))

\* C16: in the loops of generation and publication the sleep after the
\* failed attempt n is of 15 * n seconds, 15 and then 30, and a call sleeps
\* 45 seconds at most
C16_LinearBackoff ==
    (call.fn # "none" /\ LinearSite) =>
        /\ \A i \in DOMAIN call.trace :
              call.trace[i].event = "sleep" =>
                  /\ call.trace[i - 1].attempt < MAX_RETRIES
                  /\ call.trace[i].seconds
                        = RETRY_DELAY_SECONDS * call.trace[i - 1].attempt
        /\ \A n \in DOMAIN Sleeps : Sleeps[n].seconds = 15 * n
        /\ SumSeconds(Sleeps) <= 45

\* a call that has slept 15 and 30 seconds
C16_Witness ==
    /\ RetryDone
    /\ LinearSite
    /\ Len(Sleeps) = 2
    /\ Sleeps[1].seconds = 15
    /\ Sleeps[2].seconds = 30
    /\ SumSeconds(Sleeps) = 45

(***************************************************************************)
(* Claims about the outcomes and the retries of run_once (Spec).           *)
(***************************************************************************)
\* C17 as stated: a run without --dry-run that returns the result "posted"
\* has created a discussion; apart from the error, its only other result is
\* "nothing to suggest"
C17_PostedMeansCreated ==
    (run.pc = "returned" /\ ~launch.dry_run) =>
        /\ run.result.outcome \in {"posted", "nothing to suggest", "error"}
        /\ run.result.outcome = "posted" =>
              /\ created # <<>>
              /\ run.result.url.kind = "url"

\* run_once has returned "Discussion posted: Skipped: empty title or body"
\* and the board is as it was
C17_PostedWithoutDiscussion ==
    /\ run.pc = "returned"
    /\ ~launch.dry_run
    /\ run.result.outcome = "posted"
    /\ run.result.url.kind = "skipped"
    /\ created = <<>>
    /\ board \in InitialBoards

\* post_discussion is about to be called with a title and a body, the token
\* in the environment, and a category the repository does not have
CategoryMissing ==
    /\ run.pc = "post"
    /\ ~run.dry_run
    /\ launch.token = "env"
    /\ run.suggestion.title # <<>>
    /\ run.suggestion.body # <<>>
    /\ CategoryId(launch.category) = 0

\* C18: with the category missing post_discussion creates nothing, and
\* run_once returns what it returned, without a sleep and without another
\* attempt; an attempt follows only the failure of the query itself
C18_CategoryNotFoundNoRetry ==
    [][CategoryMissing =>
          /\ board' = board
          /\ created' = created
          /\ run'.pc \in {"returned", "retry_sleep"}
          /\ run'.pc = "retry_sleep" => run'.last_error = "HTTPError"
          /\ run'.pc = "returned" =>
                /\ sleep' = 0
                /\ run'.result.outcome \in {"posted", "error"}
                /\ run'.result.outcome = "posted" =>
                      run'.result.url.kind = "category not found"
                /\ run'.result.outcome = "error" =>
                      run'.result.error = "HTTPError"]_vars

\* the first attempt has ended in "category not found": nothing was created
\* and nothing is slept
C18_Witness ==
    /\ launch.category = c_polls
    /\ sched = "once"
    /\ run.pc = "returned"
    /\ run.result.outcome = "posted"
    /\ run.result.url.kind = "category not found"
    /\ created = <<>>
    /\ sleep = 0

\* C19 as stated: the ValueError of _get_headers, raised when the token is
\* not in the environment, is not retried: no attempt waits for its delay
\* after it
C19_MissingTokenNotRetried ==
    run.pc = "retry_sleep" => run.last_error # "ValueError"

\* run_once sleeps 30 seconds after the second attempt has ended in the
\* ValueError
C19_MissingTokenRetried ==
    /\ launch.token = "yaml"
    /\ run.pc = "retry_sleep"
    /\ run.last_error = "ValueError"
    /\ run.attempt = 2
    /\ sleep = 30

\* C20 as stated: after a failure of post_discussion (a ReadTimeout, or the
\* ValueError of _get_headers) the next attempt begins at the publication,
\* and after a failure of the generation service (a ConnectionError) at the
\* generation
C20_RetryOnlyFailedStage ==
    [][(run.pc = "retry_sleep" /\ run'.pc # "retry_sleep") =>
          /\ run.last_error \in {"ReadTimeout", "ValueError"} => run'.pc = "post"
          /\ run.last_error = "ConnectionError" => run'.pc = "llm"]_vars

\* the second attempt is at fetch_site_data, and the first one has created a
\* discussion: it failed in post_discussion
C20_WholeAttemptAgain ==
    /\ run.pc = "fetch_site"
    /\ run.attempt = 2
    /\ Len(created) = 1

(***************************************************************************)
(* Claims about the loop of run_once (Spec).                               *)
(***************************************************************************)
\* C21: when the guard says duplicate, run_once adds the topic's id to
\* skip_ids and picks again with the same discussions; when _pick_topic
\* returns None, run_once returns the "nothing to suggest" result and
\* post_discussion is not called
C21_DuplicateSkipsThenNothing ==
    /\ [][(run.pc = "llm" /\ run'.is_dup = "True") =>
             /\ run'.pc = "pick"
             /\ run'.skip_ids = run.skip_ids \cup {run.topic.id}
             /\ run'.discussions = run.discussions
             /\ run'.attempt = run.attempt
             /\ board' = board]_vars
    /\ [][(run.pc = "pick" /\ _pick_topic(run.discussions, run.skip_ids) = None) =>
             /\ run'.pc = "returned"
             /\ run'.result = ResultNothing
             /\ board' = board
             /\ created' = created
             /\ sleep' = 0]_vars
    /\ [][(run.pc = "pick" /\ run'.pc = "returned") =>
             _pick_topic(run.discussions, run.skip_ids) = None]_vars

\* the guard has rejected the suggestion of the first topic, which is now
\* in skip_ids, and the discussions are those that were fetched
C21_Witness ==
    /\ run.pc = "pick"
    /\ run.is_dup = "True"
    /\ run.skip_ids = {TOPIC_ROSTER[1].id}
    /\ run.discussions # <<>>
    /\ run.discussions = CategoryPosts(board, launch.category)

\* C22 as stated: a run that returns the error after its last attempt has
\* created no discussion, and the board is as the run found it
C22_FailedRunCreatesNothing ==
    (run.pc = "returned" /\ run.result.outcome = "error") =>
        /\ created = <<>>
        /\ sched = "once" => board \in InitialBoards

\* run_once has returned the error of its third attempt, a timeout of
\* post_discussion, and the board holds a discussion the run has created
C22_FailedRunHasCreated ==
    /\ run.pc = "returned"
    /\ run.result.outcome = "error"
    /\ run.result.error = "ReadTimeout"
    /\ created # <<>>
    /\ Len(board) > 0
    /\ board[1].title = created[Len(created)].title
    /\ board[1].body = created[Len(created)].body

(***************************************************************************)
(* Claims about a discussion that repeats a topic (SpecSelect).            *)
(***************************************************************************)
\* d has no label and its body is the first topic's name and keywords
VerbatimPost(d) ==
    /\ d.labels = <<>>
    /\ d.body = VerbatimBody(TOPIC_ROSTER[1])

\* the title of d has no trigram that the first topic does not have
TitleWithin(d) ==
    _text_to_trigrams(d.title) \subseteq _text_to_trigrams(TopicText(TOPIC_ROSTER[1]))

\* C23 as stated: with such a discussion among the discussions the first
\* topic is covered, and _pick_topic without exclusions returns the second
C23_VerbatimPostSkipsFirst ==
    (/\ call.fn = "_pick_topic"
     /\ call.skip_ids = {}
     /\ \E i \in DOMAIN call.discussions : VerbatimPost(call.discussions[i])) =>
        /\ _topic_is_covered(TOPIC_ROSTER[1], call.discussions)
        /\ call.ret = TOPIC_ROSTER[2]

\* C23: with such a discussion whose title adds no trigram the first topic
\* is covered and _pick_topic without exclusions does not return it; it
\* returns the second topic when no discussion covers the second topic, as
\* when that discussion is the only one
C23_VerbatimPostCovers ==
    (/\ call.fn = "_pick_topic"
     /\ call.skip_ids = {}
     /\ \E i \in DOMAIN call.discussions :
           VerbatimPost(call.discussions[i]) /\ TitleWithin(call.discussions[i])) =>
        /\ _topic_is_covered(TOPIC_ROSTER[1], call.discussions)
        /\ call.ret # TOPIC_ROSTER[1]
        /\ ~_topic_is_covered(TOPIC_ROSTER[2], call.discussions)
              => call.ret = TOPIC_ROSTER[2]
        /\ Len(call.discussions) = 1 => call.ret = TOPIC_ROSTER[2]

\* the only discussion repeats the first topic under a title of the topic's
\* words, and the second topic is returned
C23_Witness ==
    /\ call.fn = "_pick_topic"
    /\ call.skip_ids = {}
    /\ Len(call.discussions) = 1
    /\ VerbatimPost(call.discussions[1])
    /\ call.discussions[1].title = w_SEO
    /\ call.ret = TOPIC_ROSTER[2]

(***************************************************************************)
(* Claims about --dry-run (Spec).                                          *)
(***************************************************************************)
\* C24: under --dry-run nothing is created on the board; at Step 5 run_once
\* returns the "[DRY RUN]" text with the suggestion instead of calling
\* post_discussion; main calls run_once once, never run_periodic, and ends
\* when it has returned
C24_DryRunNeverPosts ==
    /\ [](launch.dry_run =>
             /\ created = <<>>
             /\ sched \in {"main", "once", "exited"}
             /\ run_count = 0
             /\ run.pc \notin {"idle", "returned"} => run.dry_run
             /\ run.pc = "returned" =>
                   run.result.outcome \in {"dry run", "nothing to suggest", "error"})
    /\ [][launch.dry_run => board' = board]_vars
    /\ [][(launch.dry_run /\ run.pc = "post") =>
             /\ run'.pc = "returned"
             /\ run'.result = ResultDryRun(run)
             /\ sleep' = 0]_vars
    /\ [][(launch.dry_run /\ run'.pc = "fetch_site" /\ run'.attempt = 1) =>
             sched = "main"]_vars
    /\ [][(launch.dry_run /\ run.pc = "returned") => sched' = "exited"]_vars

\* the dry run with the token has returned the text with its suggestion, and
\* the board it read is the board there is
C24_Witness ==
    /\ launch.dry_run
    /\ launch.token = "env"
    /\ run.pc = "returned"
    /\ run.result.outcome = "dry run"
    /\ run.result.title # <<>>
    /\ board # <<>>
    /\ board \in InitialBoards
    /\ created = <<>>

(***************************************************************************)
(* Claims about the order of the steps of run_once (Spec).                 *)
(***************************************************************************)
\* C27: post_discussion is called only after the guard has passed, in the
\* same attempt, the suggestion it is called with, against the discussions
\* fetched in that attempt, the suggestion being the one generated for the
\* topic picked last
C27_GuardBeforePublish ==
    /\ [](run.pc = "post" =>
             /\ run.is_dup = "False"
             /\ ~_is_duplicate(run.suggestion.title, run.suggestion.body,
                               run.discussions)[1]
             /\ run.topic # None
             /\ run.topic = _pick_topic(run.discussions, run.skip_ids))
    /\ [][run'.pc = "post" =>
             /\ run.pc = "llm"
             /\ run'.topic = run.topic
             /\ run'.discussions = run.discussions
             /\ run'.skip_ids = run.skip_ids
             /\ run'.attempt = run.attempt]_vars
    /\ [][board' # board =>
             /\ run.pc = "post"
             /\ ~run.dry_run
             /\ board'[1].title = run.suggestion.title
             /\ board'[1].body = run.suggestion.body]_vars
    /\ [][(run.pc = "fetch_discussions" /\ run'.pc = "pick") =>
             run'.discussions \in {<<>>, CategoryPosts(board, launch.category)}]_vars

\* post_discussion is about to be called with the suggestion for the second
\* topic, after the guard has rejected that for the first, against the
\* discussions of the board
C27_Witness ==
    /\ run.pc = "post"
    /\ ~run.dry_run
    /\ run.discussions # <<>>
    /\ run.skip_ids = {TOPIC_ROSTER[1].id}
    /\ run.topic = TOPIC_ROSTER[2]
    /\ run.suggestion.title # <<>>

\* the steps run_once has left at most, if every call it makes returns
StepsLeft(r) ==
    LET roster == Len(TOPIC_ROSTER)
        open == roster - Cardinality(r.skip_ids)
        within == CASE r.pc = "fetch_site" -> 2 * roster + 6
                    [] r.pc = "fetch_discussions" -> 2 * roster + 5
                    [] r.pc = "pick" -> 2 * open + 4
                    [] r.pc = "llm" -> 2 * open + 3
                    [] r.pc = "post" -> 2
                    [] r.pc = "retry_sleep" -> 1
                    [] OTHER -> 0
    IN  IF r.pc \in {"idle", "returned"} THEN 0
        ELSE (MAX_RETRIES - r.attempt) * (2 * roster + 7) + within

InProgress(r) == r.pc \notin {"idle", "returned"}

\* C28: run_once returns: every step of it brings the return nearer; a
\* generation call is for a topic that is not in skip_ids, and is followed
\* by the end of the loop or by that topic entering skip_ids, so an attempt
\* makes one call per roster entry at most; there are three attempts at most
C28_RunTerminates ==
    /\ [](InProgress(run) =>
             /\ run.attempt \in 1..MAX_RETRIES
             /\ StepsLeft(run) >= 0
             /\ Cardinality(run.skip_ids) <= Len(TOPIC_ROSTER))
    /\ [](run.pc = "llm" =>
             /\ run.topic.id \notin run.skip_ids
             /\ Cardinality(run.skip_ids) < Len(TOPIC_ROSTER))
    /\ [][InProgress(run) => StepsLeft(run') < StepsLeft(run)]_vars
    /\ [][run.pc = "llm" =>
             \/ run'.pc \in {"post", "retry_sleep", "returned"}
             \/ /\ run'.pc = "pick"
                /\ run'.skip_ids = run.skip_ids \cup {run.topic.id}
                /\ run'.attempt = run.attempt]_vars
    /\ [][(InProgress(run) /\ InProgress(run') /\ run'.attempt = run.attempt
              /\ run'.pc # "retry_sleep") =>
             run.skip_ids \subseteq run'.skip_ids]_vars

\* the third attempt has made a generation call for every roster entry and
\* is about to find that no topic is left
C28_Witness ==
    /\ run.pc = "pick"
    /\ run.attempt = MAX_RETRIES
    /\ run.skip_ids = TopicIds
    /\ StepsLeft(run) = 4

\* C29: a suggestion with an empty title and an empty body is not passed to
\* the guard or to post_discussion: its topic enters skip_ids and the loop
\* picks again; no discussion is created with an empty title or an empty
\* body
C29_EmptyNeverPublished ==
    /\ [](run.pc = "post" =>
             ~(run.suggestion.title = <<>> /\ run.suggestion.body = <<>>))
    /\ [](\A i \in DOMAIN created :
             created[i].title # <<>> /\ created[i].body # <<>>)
    /\ [][(run.pc = "llm" /\ run'.pc = "pick" /\ run'.is_dup = "unset") =>
             /\ run'.skip_ids = run.skip_ids \cup {run.topic.id}
             /\ run.topic.id \notin run.skip_ids
             /\ board' = board
             /\ run'.attempt = run.attempt]_vars
    /\ [][board' # board => (board'[1].title # <<>> /\ board'[1].body # <<>>)]_vars
    /\ [][(run.pc = "post" /\ ~run.dry_run
              /\ (run.suggestion.title = <<>> \/ run.suggestion.body = <<>>)) =>
             board' = board]_vars

\* the empty suggestion has sent the loop to its next topic without a
\* verdict of the guard; later a suggestion with the title alone has reached
\* post_discussion, which has created nothing
C29_Witness ==
    /\ run.pc = "returned"
    /\ run.result.outcome = "posted"
    /\ run.result.url.kind = "skipped"
    /\ skipped_run # {}
    /\ created = <<>>
    /\ board = <<>>

\* C30 as stated: no attempt of run_once ends in an exception of the parser
C30_MalformedReplyNeverFails ==
    /\ run.pc = "retry_sleep" => run.last_error # "AttributeError"
    /\ (run.pc = "returned" /\ run.result.outcome = "error") =>
          run.result.error # "AttributeError"

\* the first attempt has ended in the AttributeError of _parse_llm_json and
\* run_once sleeps before the second
C30_ParserErrorRetried ==
    /\ run.pc = "retry_sleep"
    /\ run.attempt = 1
    /\ run.last_error = "AttributeError"
    /\ sleep = RETRY_DELAY_SECONDS

(***************************************************************************)
(* Claims about the site assessor (SpecAssessor).                          *)
(***************************************************************************)
\* every site fetch of the run raises
FetchFailsThrice == \A i \in 1..AssessorAttempts : input.fetches[i] = "raise"

\* the site is fetched and every generation call of the run raises
InvokeFailsThrice ==
    /\ ~FetchFailsThrice
    /\ input.chain = "chain"
    /\ \A i \in 1..AssessorAttempts : InvokeRaises(input.replies[i])

AssessorRuns == call # NoCall /\ call.fn = "main"

\* C26: when the site fetch fails three times or the generation call fails
\* three times, main never calls post_discussion, with or without
\* --post-discussion; what it does post is never one of the two error texts
\* of run_assessment
C26_NoErrorReportPosted ==
    AssessorRuns =>
        /\ (FetchFailsThrice \/ InvokeFailsThrice) =>
               (call.posted = <<>> /\ call.pc # "post")
        /\ \A i \in DOMAIN call.posted :
               /\ call.posted[i].result \in AssessorReplies
               /\ call.posted[i].result # ErrorFetchingText(e_dns)
               /\ call.posted[i].result # ErrorRetriesText(e_503)
               /\ ~IsErrorReport(call.posted[i].result)
        /\ call.pc = "post" => call.result \in AssessorReplies

\* main has ended with --post-discussion and a token, after three generation
\* calls that raised and the two sleeps between them, and has posted nothing
C26_Witness ==
    /\ AssessorRuns
    /\ input.post_discussion
    /\ input.token = "env"
    /\ InvokeFailsThrice
    /\ call.pc = "done"
    /\ call.result = ErrorRetriesText(e_503)
    /\ call.slept >= AssessorRetryDelay + 2 * AssessorRetryDelay
    /\ call.posted = <<>>

(***************************************************************************)
(* Claims about the admin agent (SpecAdmin).                               *)
(***************************************************************************)
\* the discussion carried a comment of the bot with the marker when
\* process_discussion was called for it
CarriedBotComment ==
    \E i \in DOMAIN call.before :
        /\ call.before[i].author = "bot"
        /\ Contains(call.before[i].body, BOT_MARKER)

\* C25 as stated: for a discussion that carries a comment of the bot with the
\* marker, process_discussion makes no generation call, creates no PR and
\* posts no comment
C25_ProcessedIsSkipped ==
    (call # NoCall /\ call.pc # "fetch" /\ CarriedBotComment) =>
        /\ call.pc \in {"check", "returned", "cycle_end", "done"}
        /\ call.generation_calls = 0
        /\ call.prs = 0
        /\ call.commented = 0

\* the second cycle has opened a PR for the discussion that the first cycle
\* had commented on, the comment being the thirty-first of the discussion
C25_ProcessedAgain ==
    /\ call # NoCall
    /\ call.cycle = 2
    /\ CarriedBotComment
    /\ Len(call.before) = CommentsFirst + 1
    /\ ~is_already_processed(call.discussion)
    /\ call.generation_calls >= 1
    /\ call.prs = 1
    /\ call.ret = "pr_url"

\* what holds of the code: a discussion whose fetched comments hold the
\* marker is left alone
FetchedMarkerIsSkipped ==
    (call # NoCall /\ call.pc # "fetch" /\ is_already_processed(call.discussion)) =>
        /\ call.pc \in {"check", "returned", "cycle_end", "done"}
        /\ call.generation_calls = 0
        /\ call.prs = 0
        /\ call.commented = 0

(***************************************************************************)
(* Claims about the snapshot of the existing discussions (Spec).           *)
(***************************************************************************)
\* the loop of an attempt, from _pick_topic to post_discussion
InLoop(r) == r.pc \in {"pick", "llm", "post"}

\* C31: the list of existing discussions an attempt works on is the one
\* fetch_existing_discussions has returned in that attempt, read from the
\* board as it is then (the empty list when the query failed), never the list
\* of an earlier attempt or run; _pick_topic and _is_duplicate of the attempt
\* get the same list
C31_SnapshotPerAttempt ==
    /\ [](InLoop(run) =>
             run.discussions \in {<<>>, FetchedDiscussions(board, launch.category)})
    /\ [][(InLoop(run') /\ ~InLoop(run)) =>
             /\ run.pc = "fetch_discussions"
             /\ run'.pc = "pick"
             /\ run'.attempt = run.attempt
             /\ run'.discussions \in
                   {<<>>, FetchedDiscussions(board, launch.category)}]_vars
    /\ [][(InLoop(run) /\ InLoop(run')) =>
             /\ run'.discussions = run.discussions
             /\ run'.attempt = run.attempt]_vars
    /\ [][(run'.pc = "fetch_discussions") => run.pc = "fetch_site"]_vars
    /\ [][(run'.pc = "fetch_site" /\ run.pc # "fetch_site") =>
             run.pc \in {"idle", "returned", "retry_sleep"}]_vars

\* the second attempt of a run works on a list that holds the discussion the
\* first attempt has created before it raised
C31_Witness ==
    /\ run.pc = "llm"
    /\ run.attempt = 2
    /\ created # <<>>
    /\ run.discussions # <<>>
    /\ run.discussions = FetchedDiscussions(board, launch.category)
    /\ run.discussions[1].title = created[1].title
    /\ Len(run.discussions) = Len(created[1].at_read) + 1

(***************************************************************************)
(* Claims about the retries of the fetches.                                *)
(***************************************************************************)
\* C32 as stated, for the fetch of run_once: an attempt that fails in
\* fetch_site_data is followed by a sleep of 10 seconds
C32_FetchRetryFixedDelay ==
    [][(run.pc = "fetch_site" /\ run'.pc = "retry_sleep") =>
          sleep' = FetchRetrySleep]_vars

\* fetch_site_data has raised in the first two attempts of a run, which has
\* not come to read the board, and run_once sleeps 30 seconds
C32_FetchRetryGrows ==
    /\ run.pc = "retry_sleep"
    /\ run.attempt = 2
    /\ CategoryPosts(board, launch.category) # <<>>
    /\ at_read = <<>>
    /\ sleep = 2 * RETRY_DELAY_SECONDS
    /\ sleep # FetchRetrySleep

(***************************************************************************)
(* Claims about the sanitization pass (SpecParse).                         *)
(***************************************************************************)
\* the backslashes that stand right before place i of s
BackslashesBefore(s, i) ==
    Max({k \in 0..(i - 1) : \A m \in (i - k)..(i - 1) : s[m] = Backslash})

\* the character at place i is consumed by the escape-next flag
IsEscaped(s, i) == BackslashesBefore(s, i) % 2 = 1

\* the inside-string flag when the scanner comes to place i
InsideString(s, i) ==
    Cardinality({j \in 1..(i - 1) : s[j] = Quote /\ ~IsEscaped(s, j)}) % 2 = 1

\* what the claim lets stand for the character at place i
EscapedAt(s, i) ==
    IF InsideString(s, i) /\ ~IsEscaped(s, i) /\ s[i] = Newline THEN <<Backslash, "n">>
    ELSE IF InsideString(s, i) /\ ~IsEscaped(s, i) /\ s[i] = Tab THEN <<Backslash, "t">>
    ELSE <<s[i]>>

\* the text of the claim: every raw line break and raw tab inside a string
\* replaced by its escape, everything else as it stands
EscapedInStrings(s) ==
    LET f[i \in 1..(Len(s) + 1)] ==
            IF i > Len(s) THEN <<>> ELSE EscapedAt(s, i) \o f[i + 1]
    IN  f[1]

\* a raw tab stands inside a string of s
RawTabInString(s) ==
    \E i \in DOMAIN s : s[i] = Tab /\ InsideString(s, i) /\ ~IsEscaped(s, i)

\* C33 as stated: _sanitize_json_string of user_agent.py returns its argument
\* with every raw line break and every raw tab inside a quoted string
\* replaced by the two characters of its escape and all else unchanged
C33_EscapesNewlinesAndTabs ==
    call.fn = "_sanitize_json_string" => call.ret = EscapedInStrings(call.json_str)

\* _sanitize_json_string of user_agent.py has returned a text with the raw
\* tab of a string still in it
C33_RawTabLeft ==
    /\ call.fn = "_sanitize_json_string"
    /\ RawTabInString(call.json_str)
    /\ RawTabInString(call.ret)
    /\ call.ret # EscapedInStrings(call.json_str)

\* what holds of the copy in admin_agent.py
AdminSanitizeEscapes ==
    call.fn = "admin_agent._sanitize_json_string" =>
        call.ret = EscapedInStrings(call.json_str)

\* what holds of the copy in user_agent.py: texts without a raw tab inside a
\* string
SanitizeEscapesNewlines ==
    (call.fn = "_sanitize_json_string" /\ ~RawTabInString(call.json_str)) =>
        call.ret = EscapedInStrings(call.json_str)

(***************************************************************************)
(* Claims about normalization (SpecSim).                                   *)
(***************************************************************************)
\* the punctuation characters of the texts drawn (string.punctuation has
\* them all)
PunctuationChars == {"!", ".", ",", "-", "_", "?", ":"}

\* a text without its punctuation and in lower case
Unpunctuated(text) == SelectSeq(Lower(text), LAMBDA c : c \notin PunctuationChars)

\* two texts that differ in the case of letters and in punctuation only
SameWording(a, b) == Unpunctuated(a) = Unpunctuated(b)

\* C34 as stated: the similarity of a and b is that of every text of the
\* wording of a, whatever its case and punctuation, and b
C34_CaseAndPunctuationFree ==
    call.fn = "_similarity" =>
        \A a \in SimTexts :
            SameWording(a, call.a) =>
                _similarity(_text_to_trigrams(a), call.set_b) = call.ret

\* a text with an underscore between two words has been compared with the
\* same wording without it, and the two are not similar at 0.35, the
\* threshold of _is_duplicate
C34_UnderscoreCounts ==
    /\ call.fn = "_similarity"
    /\ call.a = w_seo \o <<"_">> \o w_rss
    /\ call.b = w_seo \o w_rss
    /\ SameWording(call.a, call.b)
    /\ call.ret # <<1, 1>>
    /\ ~SimGE(call.ret, DupNormalThreshold)

\* what holds of the code: case, and the characters that are neither of a
\* word nor space, do not count
SameCleaned(a, b) ==
    SelectSeq(Lower(a), LAMBDA c : IsWordChar(c) \/ IsSpace(c))
        = SelectSeq(Lower(b), LAMBDA c : IsWordChar(c) \/ IsSpace(c))

NonWordCharactersFree ==
    call.fn = "_similarity" =>
        \A a \in SimTexts :
            SameCleaned(a, call.a) =>
                _similarity(_text_to_trigrams(a), call.set_b) = call.ret

AdminRuns == call # NoCall /\ call.fn = "run_pipeline"

\* C35 as stated: no discussion gets a second pull request
C35_OnePullRequest ==
    AdminRuns => \A n \in DOMAIN call.pull_requests : call.pull_requests[n] <= 1

\* a discussion has two pull requests and still no comment with the marker:
\* comment_on_discussion has given up after each of them
C35_SecondPullRequest ==
    /\ AdminRuns
    /\ call.cycle = 2
    /\ call.pull_requests[1] = 2
    /\ call.github[1] = <<>>
    /\ call.commented = 0
    /\ call.ret = "pr_url"

\* C36 as stated: process_discussion returns the PR URL when the API works
\* in the pass of the loop around apply_changes_as_pr that it makes last
C36_RecoversFromTransientFailure ==
    (AdminRuns /\ call.pc = "returned" /\ call.api = "none") => call.ret = "pr_url"

\* the API has worked in the third pass, the branch made by an earlier pass
\* is in the way, and process_discussion has returned None without a PR
C36_BranchInTheWay ==
    /\ AdminRuns
    /\ call.pc = "returned"
    /\ call.api = "none"
    /\ call.attempt = MAX_RETRIES
    /\ call.branch_exists
    /\ call.prs = 0
    /\ call.ret = "None"

\* what holds of the code: a pass in which the API works returns the PR URL
\* as long as no earlier pass has created the branch
RecoversBeforeBranch ==
    [][(AdminRuns /\ call.pc = "pr" /\ ~call.branch_exists /\ call'.api = "none") =>
          (call'.ret = "pr_url" /\ call'.prs = 1)]_vars

====
